---------------------------- MODULE Spec2Model ----------------------------
(***************************************************************************)
(* Translation request orchestration of JiKeYi.                            *)
(*                                                                         *)
(* Two implementations live in the repository and both are modelled:       *)
(*   - the Electron orchestrator (legacy-electron/src/main.js,             *)
(*     translator.js and the renderer script), selected by                 *)
(*     impl = "electron";                                                  *)
(*   - the Swift application flow (AppController, TranslatorWindow-        *)
(*     Controller, TranslationPanelViewModel), selected by impl = "swift". *)
(*                                                                         *)
(* Texts are sequences of one-character strings; "_" stands for a          *)
(* whitespace character, so that String.trim() is a real conversion.       *)
(* Service ids of one request are pairwise distinct (the data model's      *)
(* invariant on BackendService.id).  The Swift window is in bubble mode and *)
(* the first service has the explanation supplement enabled.                *)
(***************************************************************************)
EXTENDS Integers, Sequences, FiniteSets, TLC

VARIABLES
    impl,                   \* which application this run is: "electron" | "swift"
    \* ---- Electron main process (main.js, translator.js)
    translationInProgress,  \* main.js:103
    flow,                   \* position of the running translateFromSelection
    reqCount,               \* number of invocations that passed the busy guard
    svcState,               \* serviceStates of the current request (main.js:2094)
    task,                   \* locals of each runServiceTranslation closure
    metric,                 \* serviceRoutingMetrics (main.js:127)
    cache,                  \* translationCache entry under each service's key
    windowReady,            \* isMainWindowReady and mainWindow alive
    budget,                 \* delta events the backends may still send
    lastEvent,              \* last payload a request handed to sendTranslationResult
    applied,                \* latestServiceResults after every event of a request so far
    pendingTranslationPayload, \* main.js:106 (NoEvent = null)
    firstReceived,          \* kind of the first service payload of the request that
                            \* the renderer of the current window has received
    \* ---- Swift application (AppController, panel view model)
    isTranslating,          \* AppController.isTranslating
    activeTask,             \* AppController.activeTranslationTask (0 = nil)
    fpc,                    \* position of each performTranslationFlow task
    fcancelled,             \* each flow task: "no", or what cancelled it
    ttask,                  \* per flow, per service: the task-group child
    stask,                  \* per flow, per service: the explanation Task
    spos,                   \* per flow: index reached in the supplementTasks loop
    panel,                  \* TranslationPanelViewModel: owner, services, statusText
    windowVisible,          \* the bubble window is on screen
    dismissQueued,          \* onBubbleDismiss Tasks not yet run on the main actor
    \* ---- Backend Client and Response Cache (translator.js, TranslatorClient)
    cacheImpl,              \* whose cache this is: "js" | "swift"
    tcache,                 \* translationCache (Map) / cache + cacheOrder
    client,                 \* concurrently running Backend Client runs
    runs,                   \* Backend Client runs started so far
    recency,                \* history: cached keys, least recently used first
    producer,               \* history: the request whose run wrote each entry
    evicted,                \* history: the key the last eviction removed
    prevRun,                \* history: the successful run that has just returned
    \* ---- Routing Scorer (main.js, AppSettings.resolveDisplayServices)
    route,                  \* settings and metrics a request is ranked with
    attempted,              \* the ordered services the request is run with
    \* ---- Service cards of the panel (TranslationPanelViewModel)
    renderItems,            \* services: status and content of each ServiceRenderItem
    streamTargets,          \* streamTargets: the text each card is animated towards
    streamAnimatorTasks,    \* streamAnimatorTasks: a card's animation task is alive
    streaming,              \* each translateStreaming call: position, translated,
                            \* and its updates in streamingUpdates not yet consumed
    \* ---- Stream Protocol Parser (streamTranslateText, translateStreamingOnce)
    streamImpl,             \* whose parser this is: "js" | "swift"
    fed,                    \* history: the lines of the response body read so far
    parser,                 \* the locals of the reading loop
    returned,               \* what the run returned or threw once the body ended
    \* ---- Configuration layer (normalizeServices, AppSettings.normalized)
    normImpl,               \* whose settings these are: "js" | "swift"
    rawServiceIds,          \* the id of each service of the settings as read
    serviceIds              \* the ids after normalization (empty: not yet run)

evars == <<translationInProgress, flow, reqCount, svcState, task, metric, cache,
           windowReady, budget, lastEvent, applied, pendingTranslationPayload,
           firstReceived>>
svars == <<isTranslating, activeTask, fpc, fcancelled, ttask, stask, spos,
           panel, windowVisible, dismissQueued>>
cvars == <<cacheImpl, tcache, client, runs, recency, producer, evicted, prevRun>>
rvars == <<route, attempted>>
pvars == <<renderItems, streamTargets, streamAnimatorTasks, streaming>>
tvars == <<streamImpl, fed, parser, returned>>
nvars == <<normImpl, rawServiceIds, serviceIds>>
yvars == <<tvars, nvars>>
xvars == <<cvars, rvars, pvars, yvars>>
vars == <<impl, evars, svars, xvars>>

-----------------------------------------------------------------------------
(* Bounds of the model *)

MaxRequests == 2
MaxDeltas == 3
MaxFlows == 2

Services == {"s1", "s2"}
ServiceOrder == <<"s1", "s2">>
\* Date.now() - startedAt: a network round trip, or the same tick (cache hit)
Latencies == {900}
CacheLatencies == {0}
FailureKinds == {"error", "timeout"}

MaxClients == 2
MaxRuns == 4
\* the configured per-service timeout, in clock ticks
TimeoutTicks == 1
\* TRANSLATION_CACHE_LIMIT (translator.js:3) and cacheLimit (TranslatorClient)
\* are 200; the model keeps the cache code and shrinks its capacity.
CacheLimit == 2

Clients == 1..MaxClients
NoRequest == [config |-> "none"]
NoRun == [request |-> NoRequest, result |-> <<>>]
EmptyCache == [store |-> {}, order |-> <<>>]
IdleClient == [pc |-> "idle", request |-> NoRequest, key |-> <<>>,
               outcome |-> "none", net |-> 0, waited |-> 0, age |-> 0]

CacheIdle ==
    /\ tcache = EmptyCache
    /\ client = [c \in Clients |-> IdleClient]
    /\ runs = 0
    /\ recency = <<>>
    /\ producer = {}
    /\ evicted = <<>>
    /\ prevRun = NoRun

NoRoute == [platform |-> "none"]
RoutingIdle == route = NoRoute /\ attempted = <<>>

\* startTask: every card is running and empty; no animation
NoTarget == [set |-> FALSE, text |-> <<>>]
CardsIdle ==
    /\ renderItems = [s \in Services |-> [status |-> "running", content |-> <<>>]]
    /\ streamTargets = [s \in Services |-> NoTarget]
    /\ streamAnimatorTasks = [s \in Services |-> FALSE]
    /\ streaming = [s \in Services |->
                       [pc |-> "streaming", translated |-> <<>>, events |-> 0,
                        yielded |-> <<>>]]

\* the locals of translateStreamingOnce / streamTranslateText before the first
\* line: eventLines (swift) or buffer (js), translated or fullText, stopReason,
\* sawSSEDataLine, collector.rawText, and the texts handed to onUpdate / onDelta
NewParser ==
    [eventLines |-> <<>>, translated |-> <<>>, stopReason |-> "",
     sawSSEDataLine |-> FALSE, rawText |-> <<>>, updates |-> <<>>]
NoOutcome == [kind |-> "none", text |-> <<>>, cached |-> <<>>]
ParserIdle ==
    /\ streamImpl = "js"
    /\ fed = <<>>
    /\ parser = NewParser
    /\ returned = NoOutcome

SettingsIdle == normImpl = "js" /\ rawServiceIds = <<>> /\ serviceIds = <<>>

LeafIdle == ParserIdle /\ SettingsIdle

ComponentsIdle == cacheImpl = "js" /\ CacheIdle /\ RoutingIdle /\ CardsIdle /\ LeafIdle

-----------------------------------------------------------------------------
(* Text *)

IsSpace(c) == c = "_"

RECURSIVE TrimLeft(_)
TrimLeft(t) ==
    IF t = <<>> THEN <<>>
    ELSE IF IsSpace(Head(t)) THEN TrimLeft(Tail(t)) ELSE t

RECURSIVE TrimRight(_)
TrimRight(t) ==
    IF t = <<>> THEN <<>>
    ELSE IF IsSpace(t[Len(t)]) THEN TrimRight(SubSeq(t, 1, Len(t) - 1)) ELSE t

Trim(t) == TrimRight(TrimLeft(t))

Slice(t, n) == SubSeq(t, 1, IF n < Len(t) THEN n ELSE Len(t))

\* The i-th delta of a response carries a letter that tells its position; the
\* first and the later ones may be whitespace instead.
DeltaLetter(i) == IF i = 1 THEN "a" ELSE IF i = 2 THEN "b" ELSE "c"
DeltaChoices(i) == IF i = 2 THEN {DeltaLetter(i)} ELSE {DeltaLetter(i), "_"}

\* Body of a successful non-streaming response.
DirectResponseText == <<"f", "_">>

-----------------------------------------------------------------------------
(* Routing metrics (main.js).  ewmaLatencyMs is the exact rational          *)
(* ewmaNum / ewmaDen in lowest terms; lastLatencyMs, lastError and          *)
(* updatedAt are write-only in the program and are left out.                *)

SERVICE_ROUTE_INITIAL_LATENCY_MS == 760
EwmaAlphaNum == 7
EwmaAlphaDen == 20
MinBoundedLatency == 40

InitialMetric ==
    [attempts |-> 0, successes |-> 0, failures |-> 0, timeouts |-> 0,
     consecutiveFailures |-> 0, timeoutStreak |-> 0,
     ewmaNum |-> SERVICE_ROUTE_INITIAL_LATENCY_MS, ewmaDen |-> 1]

\* Math.max(40, Math.round(latencyMs || SERVICE_ROUTE_INITIAL_LATENCY_MS))
BoundedLatency(latencyMs) ==
    LET l == IF latencyMs = 0 THEN SERVICE_ROUTE_INITIAL_LATENCY_MS ELSE latencyMs
    IN IF l < MinBoundedLatency THEN MinBoundedLatency ELSE l

RECURSIVE Gcd(_, _)
Gcd(a, b) == IF b = 0 THEN a ELSE Gcd(b, a % b)

\* ewma * (1 - alpha) + boundedLatency * alpha
UpdateServiceMetricOnSuccess(m, latencyMs) ==
    LET num == (EwmaAlphaDen - EwmaAlphaNum) * m.ewmaNum
               + EwmaAlphaNum * BoundedLatency(latencyMs) * m.ewmaDen
        den == EwmaAlphaDen * m.ewmaDen
        g == Gcd(num, den)
    IN [m EXCEPT !.attempts = @ + 1,
                 !.successes = @ + 1,
                 !.consecutiveFailures = 0,
                 !.timeoutStreak = 0,
                 !.ewmaNum = num \div g,
                 !.ewmaDen = den \div g]

IsTimeoutLikeError(kind) == kind = "timeout"

\* a failure that is recorded without being counted as an attempt
UpdateServiceMetricOnFailureUncounted(m, kind) ==
    [m EXCEPT !.failures = @ + 1, !.consecutiveFailures = @ + 1]

UpdateServiceMetricOnFailure(m, kind) ==
    [m EXCEPT !.attempts = @ + 1,
              !.failures = @ + 1,
              !.consecutiveFailures = @ + 1,
              !.timeoutStreak = IF IsTimeoutLikeError(kind) THEN @ + 1 ELSE 0,
              !.timeouts = IF IsTimeoutLikeError(kind) THEN @ + 1 ELSE @]

-----------------------------------------------------------------------------
(* Events at the presentation boundary and the renderer's merge            *)

Absent == [status |-> "absent", translation |-> <<>>, error |-> ""]
NoServices == [s \in Services |-> Absent]
NoDelta ==
    [status |-> "", error |-> "", translation |-> <<>>,
     translationDelta |-> <<>>, translationLength |-> 0]

Event(stage, kind, changed, delta, services, error) ==
    [stage |-> stage, kind |-> kind, changed |-> changed, delta |-> delta,
     services |-> services, error |-> error]

NoEvent == Event("none", "plain", "", NoDelta, NoServices, "")

\* snapshotService: the public fields of one ServiceRunState
SnapshotService(item) ==
    [status |-> item.status, translation |-> item.translation, error |-> item.error]

\* renderer: normalizeServiceResults on one item
NormalizeServiceResult(item) ==
    [status |-> IF item.status = "" THEN "pending" ELSE item.status,
     translation |-> item.translation,
     error |-> item.error]

\* renderer: mergeServiceDelta, the entry of the changed service
MergeServiceDelta(current, delta, mode) ==
    IF mode = "append" THEN
        LET safeCurrent == IF current.status = "absent"
                           THEN [status |-> "streaming", translation |-> <<>>, error |-> ""]
                           ELSE current
            joined == safeCurrent.translation \o delta.translationDelta
            nextTranslation == IF Len(joined) > delta.translationLength
                               THEN Slice(joined, delta.translationLength)
                               ELSE joined
        IN [status |-> IF delta.status # "" THEN delta.status ELSE safeCurrent.status,
            error |-> IF delta.error # "" THEN delta.error ELSE safeCurrent.error,
            translation |-> nextTranslation]
    ELSE
        NormalizeServiceResult(
            [status |-> delta.status, translation |-> delta.translation,
             error |-> delta.error])

\* renderer: the onTranslationResult handler, as far as latestServiceResults goes
OnTranslationResult(results, ev) ==
    IF ev.stage = "reading" THEN NoServices
    ELSE IF ev.kind = "full"
    THEN [s \in Services |-> NormalizeServiceResult(ev.services[s])]
    ELSE IF ev.kind \in {"append", "replace"}
    THEN [results EXCEPT ![ev.changed] = MergeServiceDelta(@, ev.delta, ev.kind)]
    ELSE IF ev.error # "" THEN NoServices
    ELSE results

\* A context is the part of the state one synchronous run of the orchestrator
\* works on: st = serviceStates, tk = closure locals, ap = renderer list,
\* ev = last payload sent, mt = routing metrics, ca = translation cache.
Context ==
    [st |-> svcState, tk |-> task, ap |-> applied, ev |-> lastEvent,
     mt |-> metric, ca |-> cache, pe |-> pendingTranslationPayload,
     fr |-> firstReceived]

ServiceKinds == {"full", "append", "replace"}

\* the renderer of the current window receives a payload
Receive(first, ev) ==
    IF first = "none" /\ ev.kind \in ServiceKinds THEN ev.kind ELSE first

\* sendTranslationResult: while the window is missing, destroyed or not ready
\* the payload replaces pendingTranslationPayload
SendTranslationResult(c, ev) ==
    LET c1 == [c EXCEPT !.ev = ev, !.ap = OnTranslationResult(c.ap, ev)]
    IN IF ~windowReady
       THEN [c1 EXCEPT !.pe = ev]
       ELSE [c1 EXCEPT !.fr = Receive(@, ev)]

EmitServicesSnapshot(c, stage, changed, mode, chunk, length, err) ==
    LET canUseDelta == stage = "service-update" /\ changed # "" /\ windowReady
        changedState == c.st[changed]
        payload ==
            IF mode = "append"
            THEN [status |-> changedState.status, error |-> changedState.error,
                  translation |-> <<>>, translationDelta |-> chunk,
                  translationLength |-> length]
            ELSE [status |-> changedState.status, error |-> changedState.error,
                  translation |-> changedState.translation,
                  translationDelta |-> <<>>, translationLength |-> 0]
    IN IF canUseDelta
       THEN SendTranslationResult(c, Event(stage, mode, changed, payload, NoServices, err))
       ELSE SendTranslationResult(c,
                Event(stage, "full", changed, NoDelta,
                      [s \in Services |-> SnapshotService(c.st[s])], err))

-----------------------------------------------------------------------------
(* translator.js: the response cache, as seen through one service's key    *)

ReadCachedTranslation(ca, s) == ca[s]

WriteCachedTranslation(ca, s, translatedText) ==
    LET text == Trim(translatedText)
    IN IF text = <<>> THEN ca ELSE [ca EXCEPT ![s] = text]

-----------------------------------------------------------------------------
(* main.js: runServiceTranslation                                          *)

PendingState == [status |-> "pending", translation |-> <<>>, error |-> ""]
NoState == [status |-> "none", translation |-> <<>>, error |-> ""]

InitTask ==
    [pc |-> "idle", streamedOnce |-> FALSE, fullText |-> <<>>,
     latestTranslation |-> <<>>, lastEmitSet |-> FALSE,
     pendingDeltaChunk |-> <<>>, consumedFullTextLength |-> 0,
     ok |-> FALSE, error |-> "", streamFailed |-> FALSE,
     fallbackIssued |-> FALSE, cacheServed |-> FALSE]

\* now - lastEmitAt < SERVICE_STREAM_UPDATE_THROTTLE_MS can only be true once
\* lastEmitAt has been set by an earlier emitStreamUpdate
ThrottleChoices(t) == IF t.lastEmitSet THEN BOOLEAN ELSE {FALSE}

\* Faulty variant of SkipsEmission: the throttle is honoured even when forced.
SkipsEmissionIgnoringForce(force, inThrottleWindow) == inThrottleWindow

\* the early return of emitStreamUpdate
SkipsEmission(force, inThrottleWindow) == ~force /\ inThrottleWindow

EmitStreamUpdate(c, s, force, inThrottleWindow) ==
    IF SkipsEmission(force, inThrottleWindow) THEN c
    ELSE
        LET c1 == [c EXCEPT !.tk[s].lastEmitSet = TRUE]
        IN IF ~force /\ c1.tk[s].pendingDeltaChunk # <<>>
           THEN LET c2 == EmitServicesSnapshot(c1, "service-update", s, "append",
                              c1.tk[s].pendingDeltaChunk,
                              Len(c1.tk[s].latestTranslation), "")
                IN [c2 EXCEPT !.tk[s].pendingDeltaChunk = <<>>]
           ELSE EmitServicesSnapshot(c1, "service-update", s, "replace", <<>>, 0, "")

\* the onDelta handler passed to streamTranslateText
OnDelta(c, s, fullText, deltaText, inThrottleWindow) ==
    LET consumed == c.tk[s].consumedFullTextLength
        chunk == IF deltaText # <<>> THEN deltaText
                 ELSE IF Len(fullText) > consumed
                      THEN SubSeq(fullText, consumed + 1, Len(fullText))
                      ELSE <<>>
        c1 == [c EXCEPT !.tk[s].streamedOnce = TRUE,
                        !.tk[s].latestTranslation = fullText,
                        !.st[s] = [status |-> "streaming", translation |-> fullText,
                                   error |-> ""],
                        !.tk[s].consumedFullTextLength = Len(fullText),
                        !.tk[s].pendingDeltaChunk = @ \o chunk]
    IN EmitStreamUpdate(c1, s, FALSE, inThrottleWindow)

\* the success tail shared by the streamed path and the fallback path
CompleteSuccess(c, s, translation, latencyMs, inThrottleWindow) ==
    LET final == Trim(translation)
        c1 == [c EXCEPT !.mt[s] = UpdateServiceMetricOnSuccess(@, latencyMs),
                        !.st[s] = [status |-> "done", translation |-> final,
                                   error |-> ""],
                        !.tk[s].consumedFullTextLength = Len(final),
                        !.tk[s].pendingDeltaChunk = <<>>]
        c2 == EmitStreamUpdate(c1, s, TRUE, inThrottleWindow)
    IN [c2 EXCEPT !.tk[s].pc = "returned", !.tk[s].ok = TRUE]

\* Faulty variant of CompleteFailure: a failure also ends the sibling tasks
\* that are still running.
CompleteFailureCancellingSiblings(c, s, kind, inThrottleWindow) ==
    LET c1 == [c EXCEPT !.mt[s] = UpdateServiceMetricOnFailure(@, kind),
                        !.st = [x \in Services |->
                                   IF x = s \/ c.st[x].status \in {"running", "streaming"}
                                   THEN [c.st[x] EXCEPT !.status = "error", !.error = kind]
                                   ELSE c.st[x]],
                        !.tk[s].pendingDeltaChunk = <<>>]
        c2 == EmitStreamUpdate(c1, s, TRUE, inThrottleWindow)
    IN [c2 EXCEPT !.tk[s].pc = "returned", !.tk[s].ok = FALSE, !.tk[s].error = kind]

\* Faulty variant of CompleteFailure: the failed service is put back to running.
CompleteFailureBackToRunning(c, s, kind, inThrottleWindow) ==
    LET c1 == [c EXCEPT !.mt[s] = UpdateServiceMetricOnFailure(@, kind),
                        !.st[s].status = "running",
                        !.st[s].error = kind,
                        !.tk[s].pendingDeltaChunk = <<>>]
        c2 == EmitStreamUpdate(c1, s, TRUE, inThrottleWindow)
    IN [c2 EXCEPT !.tk[s].pc = "returned", !.tk[s].ok = FALSE, !.tk[s].error = kind]

\* the failure tail shared by the streamed path and the fallback path
CompleteFailure(c, s, kind, inThrottleWindow) ==
    LET c1 == [c EXCEPT !.mt[s] = UpdateServiceMetricOnFailure(@, kind),
                        !.st[s].status = "error",
                        !.st[s].error = kind,
                        !.tk[s].pendingDeltaChunk = <<>>]
        c2 == EmitStreamUpdate(c1, s, TRUE, inThrottleWindow)
    IN [c2 EXCEPT !.tk[s].pc = "returned", !.tk[s].ok = FALSE, !.tk[s].error = kind]

\* Faulty variant of SurfacesStreamError: translateText is tried after any
\* stream failure.
NeverSurfacesStreamError(t) == FALSE

\* catch (streamError): is the error surfaced, or is translateText tried?
SurfacesStreamError(t) == t.streamedOnce

\* the catch block of runServiceTranslation, up to translateText's first await
CatchStreamError(c, s, kind, latencyMs, inThrottleWindow) ==
    LET c0 == [c EXCEPT !.tk[s].streamFailed = TRUE]
    IN IF SurfacesStreamError(c0.tk[s])
       THEN CompleteFailure(c0, s, kind, inThrottleWindow)
       ELSE LET c1 == [c0 EXCEPT !.tk[s].fallbackIssued = TRUE]
                cached == ReadCachedTranslation(c1.ca, s)
            IN IF cached # <<>>
               THEN CompleteSuccess(c1, s, cached, latencyMs, inThrottleWindow)
               ELSE [c1 EXCEPT !.tk[s].pc = "fallback"]

\* streamTranslateText up to its first await: the cache lookup
StreamTranslateTextCall(c, s) ==
    LET cached == ReadCachedTranslation(c.ca, s)
    IN IF cached # <<>>
       THEN LET c1 == OnDelta(c, s, cached, cached, FALSE)
            IN [c1 EXCEPT !.tk[s].pc = "hit", !.tk[s].cacheServed = TRUE]
       ELSE [c EXCEPT !.tk[s].pc = "stream"]

\* runServiceTranslation up to its first await
RunServiceTranslationStart(c, s) ==
    LET c1 == [c EXCEPT !.st[s] = [status |-> "running", translation |-> <<>>,
                                   error |-> ""],
                        !.tk[s] = InitTask]
        c2 == EmitServicesSnapshot(c1, "service-update", s, "replace", <<>>, 0, "")
    IN StreamTranslateTextCall(c2, s)

\* serviceCandidates.map(runServiceTranslation): every task starts in order
RECURSIVE LaunchAll(_, _)
LaunchAll(c, i) ==
    IF i > Len(ServiceOrder) THEN c
    ELSE LaunchAll(RunServiceTranslationStart(c, ServiceOrder[i]), i + 1)

Commit(c) ==
    /\ svcState' = c.st
    /\ task' = c.tk
    /\ applied' = c.ap
    /\ lastEvent' = c.ev
    /\ metric' = c.mt
    /\ cache' = c.ca
    /\ pendingTranslationPayload' = c.pe
    /\ firstReceived' = c.fr

-----------------------------------------------------------------------------
(* main.js: scoreServiceForRouting.  The score is the exact rational        *)
(* num / den with den = ewmaDen * max(attempts, 1).                          *)

SERVICE_ROUTE_FAILURE_PENALTY_MS == 320
SERVICE_ROUTE_TIMEOUT_PENALTY_MS == 560
SERVICE_ROUTE_DISABLED_PENALTY_MS == 2200
FailureRatePenalty == 540
ActiveBonus == 36

ScoreServiceForRouting(m, enabled, isActive) ==
    LET tries == IF m.attempts > 0 THEN m.attempts ELSE 1
        den == m.ewmaDen * tries
        flat == m.consecutiveFailures * SERVICE_ROUTE_FAILURE_PENALTY_MS
                + m.timeoutStreak * SERVICE_ROUTE_TIMEOUT_PENALTY_MS
                + (IF enabled THEN 0 ELSE SERVICE_ROUTE_DISABLED_PENALTY_MS)
                - (IF isActive THEN ActiveBonus ELSE 0)
        rate == IF m.attempts > 0 THEN m.failures * FailureRatePenalty * m.ewmaDen
                ELSE 0
    IN [num |-> m.ewmaNum * tries + flat * den + rate, den |-> den]

\* a - b < 0 and a - b <= 0 on scores
Lcm(a, b) == (a \div Gcd(a, b)) * b
ScoreOn(x, l) == x.num * (l \div x.den)
ScoreLess(a, b) == ScoreOn(a, Lcm(a.den, b.den)) < ScoreOn(b, Lcm(a.den, b.den))
ScoreLeq(a, b) == ~ScoreLess(b, a)

-----------------------------------------------------------------------------
(* Electron: initial state and the steps of translateFromSelection          *)

PlainEvent(stage, err) == Event(stage, "plain", "", NoDelta, NoServices, err)
BusyEvent == PlainEvent("busy", "busy")

SwiftIdle ==
    /\ isTranslating = FALSE
    /\ activeTask = 0
    /\ fpc = [f \in 1..MaxFlows |-> "unborn"]
    /\ fcancelled = [f \in 1..MaxFlows |-> "no"]
    /\ ttask = [f \in 1..MaxFlows |-> [s \in Services |-> "none"]]
    /\ stask = [f \in 1..MaxFlows |-> [s \in Services |-> "none"]]
    /\ spos = [f \in 1..MaxFlows |-> 1]
    /\ panel = [owner |-> 0, services |-> [s \in Services |-> "none"],
                statusText |-> "idle"]
    /\ windowVisible = FALSE
    /\ dismissQueued = 0

ElectronIdle ==
    /\ translationInProgress = FALSE
    /\ flow = "idle"
    /\ reqCount = 0
    /\ svcState = [s \in Services |-> NoState]
    /\ task = [s \in Services |-> InitTask]
    /\ metric = [s \in Services |-> InitialMetric]
    /\ cache = [s \in Services |-> <<>>]
    /\ windowReady = TRUE
    /\ budget = MaxDeltas
    /\ lastEvent = NoEvent
    /\ applied = NoServices
    /\ pendingTranslationPayload = NoEvent
    /\ firstReceived = "none"

\* Continuations that are already queued as microtasks run before any timer,
\* network or window callback: a cache-served streamTranslateText has resolved,
\* or every runServiceTranslation has returned and Promise.all has resolved.
AllReturned == \A s \in Services : task[s].pc = "returned"
MicrotaskPending ==
    /\ flow = "translating"
    /\ \/ \E s \in Services : task[s].pc = "hit"
       \/ AllReturned

\* the busy guard of translateFromSelection: the invocation returns at once.
\* Its 'busy' payload belongs to the rejected invocation, not to the request
\* in flight, whose events lastEvent and applied follow.
TriggerBusy ==
    /\ impl = "electron"
    /\ translationInProgress
    /\ ~MicrotaskPending
    /\ pendingTranslationPayload' =
           IF ~windowReady THEN BusyEvent ELSE pendingTranslationPayload
    /\ UNCHANGED <<impl, translationInProgress, flow, reqCount, svcState, task,
                   metric, cache, windowReady, budget, lastEvent, applied,
                   firstReceived, svars, xvars>>

\* translateFromSelection from the guard to the await of readSelectionText
TriggerStart ==
    /\ impl = "electron"
    /\ ~translationInProgress
    /\ reqCount < MaxRequests
    /\ translationInProgress' = TRUE
    /\ reqCount' = reqCount + 1
    /\ flow' = "reading"
    /\ Commit(SendTranslationResult([Context EXCEPT !.fr = "none"],
                                     PlainEvent("reading", "")))
    /\ UNCHANGED <<impl, windowReady, budget, svars, xvars>>

\* how an invocation leaves its try block with this error
ExitOf(err) == IF err = "no-service" THEN "throw" ELSE "return"

\* Faulty variant of Finally: the flag is reset on a return only.
FinallyOnReturnOnly(exit) == exit = "throw"

\* the finally block of translateFromSelection: translationInProgress once the
\* invocation has left its try block by a return or by a throw
Finally(exit) == FALSE

\* empty selection (return) or no candidate service (throw): an 'error' payload,
\* then the finally block
SelectionReadFailed ==
    /\ impl = "electron"
    /\ flow = "reading"
    /\ \E err \in {"no-selection", "no-service"} :
           /\ Commit(SendTranslationResult(Context, PlainEvent("error", err)))
           /\ translationInProgress' = Finally(ExitOf(err))
    /\ flow' = "idle"
    /\ UNCHANGED <<impl, reqCount, windowReady, budget, svars, xvars>>

\* a selection was read: serviceStates are created, 'translating' is emitted and
\* every runServiceTranslation runs up to its first await
SelectionReadOk ==
    /\ impl = "electron"
    /\ flow = "reading"
    /\ LET c0 == [Context EXCEPT !.st = [s \in Services |-> PendingState],
                                 !.tk = [s \in Services |-> InitTask]]
           c1 == EmitServicesSnapshot(c0, "translating", "", "replace", <<>>, 0, "")
       IN Commit(LaunchAll(c1, 1))
    /\ flow' = "translating"
    /\ UNCHANGED <<impl, translationInProgress, reqCount, windowReady, budget, svars, xvars>>

\* await streamTranslateText resumes after a cache hit
CacheHitReturn(s) ==
    /\ impl = "electron"
    /\ flow = "translating"
    /\ task[s].pc = "hit"
    /\ \A i, j \in 1..Len(ServiceOrder) :
           (ServiceOrder[j] = s /\ i < j) => task[ServiceOrder[i]].pc # "hit"
    /\ \E latencyMs \in CacheLatencies, inThrottleWindow \in ThrottleChoices(task[s]) :
           Commit(CompleteSuccess(Context, s, task[s].latestTranslation, latencyMs,
                                  inThrottleWindow))
    /\ UNCHANGED <<impl, translationInProgress, flow, reqCount, windowReady, budget, svars, xvars>>

\* one text delta of the SSE stream reaches consumeBlock
StreamDelta(s) ==
    /\ impl = "electron"
    /\ flow = "translating"
    /\ task[s].pc = "stream"
    /\ ~MicrotaskPending
    /\ budget > 0
    /\ budget' = budget - 1
    /\ \E ch \in DeltaChoices(Len(task[s].fullText) + 1),
          inThrottleWindow \in ThrottleChoices(task[s]) :
           LET fullText == Append(task[s].fullText, ch)
               c1 == [Context EXCEPT !.tk[s].fullText = fullText]
           IN Commit(OnDelta(c1, s, fullText, <<ch>>, inThrottleWindow))
    /\ UNCHANGED <<impl, translationInProgress, flow, reqCount, windowReady, svars, xvars>>

\* the stream ends: streamTranslateText returns or throws on an empty text, and
\* runServiceTranslation continues
StreamEnd(s) ==
    /\ impl = "electron"
    /\ flow = "translating"
    /\ task[s].pc = "stream"
    /\ ~MicrotaskPending
    /\ \E latencyMs \in Latencies, inThrottleWindow \in ThrottleChoices(task[s]) :
           IF Trim(task[s].fullText) = <<>>
           THEN Commit(CatchStreamError(Context, s, "empty", latencyMs, inThrottleWindow))
           ELSE LET c1 == [Context EXCEPT
                               !.ca = WriteCachedTranslation(@, s, task[s].fullText)]
                IN IF Trim(c1.tk[s].latestTranslation) = <<>>
                   THEN Commit(CatchStreamError(c1, s, "empty", latencyMs,
                                                inThrottleWindow))
                   ELSE Commit(CompleteSuccess(c1, s, c1.tk[s].latestTranslation,
                                               latencyMs, inThrottleWindow))
    /\ UNCHANGED <<impl, translationInProgress, flow, reqCount, windowReady, budget, svars, xvars>>

\* the stream fails: HTTP error, error event, network error or timeout abort
StreamFail(s) ==
    /\ impl = "electron"
    /\ flow = "translating"
    /\ task[s].pc = "stream"
    /\ ~MicrotaskPending
    /\ \E kind \in FailureKinds, latencyMs \in Latencies,
          inThrottleWindow \in ThrottleChoices(task[s]) :
           Commit(CatchStreamError(Context, s, kind, latencyMs, inThrottleWindow))
    /\ UNCHANGED <<impl, translationInProgress, flow, reqCount, windowReady, budget, svars, xvars>>

\* translateText returns a text
FallbackOk(s) ==
    /\ impl = "electron"
    /\ flow = "translating"
    /\ task[s].pc = "fallback"
    /\ ~MicrotaskPending
    /\ \E latencyMs \in Latencies, inThrottleWindow \in ThrottleChoices(task[s]) :
           LET c1 == [Context EXCEPT
                          !.ca = WriteCachedTranslation(@, s, DirectResponseText)]
           IN Commit(CompleteSuccess(c1, s, Trim(DirectResponseText), latencyMs,
                                     inThrottleWindow))
    /\ UNCHANGED <<impl, translationInProgress, flow, reqCount, windowReady, budget, svars, xvars>>

\* translateText throws
FallbackFail(s) ==
    /\ impl = "electron"
    /\ flow = "translating"
    /\ task[s].pc = "fallback"
    /\ ~MicrotaskPending
    /\ \E kind \in FailureKinds, inThrottleWindow \in ThrottleChoices(task[s]) :
           Commit(CompleteFailure(Context, s, kind, inThrottleWindow))
    /\ UNCHANGED <<impl, translationInProgress, flow, reqCount, windowReady, budget, svars, xvars>>

\* the first failed result in candidate order (settledResults.find)
RECURSIVE FirstError(_, _)
FirstError(tk, i) ==
    IF i > Len(ServiceOrder) THEN ""
    ELSE IF ~tk[ServiceOrder[i]].ok THEN tk[ServiceOrder[i]].error
    ELSE FirstError(tk, i + 1)

\* Faulty variant of AllDoneError: any failed service makes the request fail.
AllDoneErrorOnAnyFailure(tk) ==
    IF \E s \in Services : ~tk[s].ok THEN FirstError(tk, 1) ELSE ""

\* the request-level error carried by 'all-done'
AllDoneError(tk) ==
    IF \A s \in Services : ~tk[s].ok THEN FirstError(tk, 1) ELSE ""

\* Promise.all has resolved: 'all-done' is emitted, the finally block runs and
\* the request's serviceStates go out of scope
AllDone ==
    /\ impl = "electron"
    /\ flow = "translating"
    /\ AllReturned
    /\ LET c1 == EmitServicesSnapshot(Context, "all-done", "", "replace", <<>>, 0,
                                      AllDoneError(task))
       IN Commit([c1 EXCEPT !.st = [s \in Services |-> NoState],
                            !.tk = [s \in Services |-> InitTask]])
    /\ flow' = "idle"
    /\ translationInProgress' = Finally("return")
    /\ UNCHANGED <<impl, reqCount, windowReady, budget, svars, xvars>>

\* mainWindow 'closed'
WindowClosed ==
    /\ impl = "electron"
    /\ windowReady
    /\ ~MicrotaskPending
    /\ windowReady' = FALSE
    /\ firstReceived' = "none"
    /\ UNCHANGED <<impl, translationInProgress, flow, reqCount, svcState, task,
                   metric, cache, budget, lastEvent, applied,
                   pendingTranslationPayload, svars, xvars>>

\* 'did-finish-load' of a newly created window: flushPendingTranslationPayload
DidFinishLoad ==
    /\ impl = "electron"
    /\ ~windowReady
    /\ ~MicrotaskPending
    /\ windowReady' = TRUE
    /\ firstReceived' = Receive(firstReceived, pendingTranslationPayload)
    /\ pendingTranslationPayload' = NoEvent
    /\ UNCHANGED <<impl, translationInProgress, flow, reqCount, svcState, task,
                   metric, cache, budget, lastEvent, applied, svars, xvars>>

NextElectron ==
    \/ TriggerBusy
    \/ TriggerStart
    \/ SelectionReadFailed
    \/ SelectionReadOk
    \/ \E s \in Services : CacheHitReturn(s)
    \/ \E s \in Services : StreamDelta(s)
    \/ \E s \in Services : StreamEnd(s)
    \/ \E s \in Services : StreamFail(s)
    \/ \E s \in Services : FallbackOk(s)
    \/ \E s \in Services : FallbackFail(s)
    \/ AllDone
    \/ WindowClosed
    \/ DidFinishLoad

InitElectron == impl = "electron" /\ ElectronIdle /\ SwiftIdle /\ ComponentsIdle

SpecElectron == InitElectron /\ [][NextElectron]_vars

-----------------------------------------------------------------------------
(* Swift: TranslationPanelViewModel                                        *)

Flows == 1..MaxFlows
Outcomes == {"ok", "error", "timeout"}
\* services with enableExplanation
ExplainServices == {"s1"}

\* startTask
StartTask(f) ==
    [owner |-> f, services |-> [s \in Services |-> "running"],
     statusText |-> "translating"]

\* showFatalError
ShowFatalError(f) ==
    [owner |-> f, services |-> [s \in Services |-> "none"], statusText |-> "failed"]

\* refreshTaskStatus
RefreshTaskStatus(p, forceComplete) ==
    LET shown == {s \in Services : p.services[s] # "none"}
        running == {s \in shown : p.services[s] = "running"}
        failed == {s \in shown : p.services[s] = "failed"}
    IN IF shown = {} THEN p
       ELSE IF running # {} /\ ~forceComplete
       THEN [p EXCEPT !.statusText = "translating"]
       ELSE IF failed = {} THEN [p EXCEPT !.statusText = "done"]
       ELSE IF failed = shown THEN [p EXCEPT !.statusText = "failed"]
       ELSE [p EXCEPT !.statusText = "partly-failed"]

\* applySuccess / applyError: updateService on the item with this id, if any
ApplyOutcome(p, s, outcome) ==
    IF p.services[s] = "none" THEN RefreshTaskStatus(p, FALSE)
    ELSE RefreshTaskStatus(
             [p EXCEPT !.services[s] = IF outcome = "ok" THEN "done" ELSE "failed"],
             FALSE)

\* finishTask
FinishTask(p) == RefreshTaskStatus(p, TRUE)

-----------------------------------------------------------------------------
(* Swift: AppController                                                    *)

InFlight(f) == fpc[f] \notin {"unborn", "ended"}
\* Task.isCancelled of the flow task, inherited by the children of its group
IsCancelled(f) == fcancelled[f] # "no"
NextFlow(f) == fpc[f] = "unborn" /\ \A g \in Flows : g < f => fpc[g] # "unborn"

\* Task.cancel on a supplement task
CancelTask(st) == IF st = "running" THEN "cancelled" ELSE st

\* the loop over supplementTasks from index i up to the next suspension:
\* <<tasks, index, position of the flow>>
RECURSIVE SupplementLoop(_, _, _)
SupplementLoop(tasks, i, isCancelled) ==
    IF i > Len(ServiceOrder) THEN <<tasks, 1, "closing">>
    ELSE LET s == ServiceOrder[i]
         IN IF tasks[s] = "none"
            THEN SupplementLoop(tasks, i + 1, isCancelled)
            ELSE IF isCancelled
            THEN SupplementLoop([tasks EXCEPT ![s] = CancelTask(@)], i + 1, isCancelled)
            ELSE IF tasks[s] \in {"running", "cancelled"}
            THEN <<tasks, i, "supp">>
            ELSE SupplementLoop(tasks, i + 1, isCancelled)

\* triggerTranslate with no flow marked as running
TriggerTranslate ==
    /\ impl = "swift"
    /\ ~isTranslating
    /\ \E f \in Flows :
          /\ NextFlow(f)
          /\ isTranslating' = TRUE
          /\ activeTask' = f
          /\ fpc' = [fpc EXCEPT ![f] = "fetching"]
    /\ UNCHANGED <<impl, evars, xvars, fcancelled, ttask, stask, spos, panel,
                   windowVisible, dismissQueued>>

\* triggerTranslate within 180 s of the running flow's start: return
TriggerIgnored ==
    /\ impl = "swift"
    /\ isTranslating
    /\ UNCHANGED vars

\* triggerTranslate 180 s or more after the running flow's start
TriggerStale ==
    /\ impl = "swift"
    /\ isTranslating
    /\ \E f \in Flows :
          /\ NextFlow(f)
          /\ isTranslating' = TRUE
          /\ activeTask' = f
          /\ fpc' = [fpc EXCEPT ![f] = "fetching"]
    /\ fcancelled' = IF activeTask = 0 THEN fcancelled
                     ELSE [fcancelled EXCEPT ![activeTask] = "stale"]
    /\ UNCHANGED <<impl, evars, xvars, ttask, stask, spos, panel,
                   windowVisible, dismissQueued>>

\* the defer block of performTranslationFlow
FlowExit(f) ==
    /\ isTranslating' = FALSE
    /\ activeTask' = 0
    /\ fpc' = [fpc EXCEPT ![f] = "ended"]

\* fetchSourcePayload throws
FetchFailed(f) ==
    /\ impl = "swift"
    /\ fpc[f] = "fetching"
    /\ \E ocrCancelled \in BOOLEAN :
          IF ocrCancelled
          THEN UNCHANGED <<panel, windowVisible>>
          ELSE panel' = ShowFatalError(f) /\ windowVisible' = TRUE
    /\ FlowExit(f)
    /\ UNCHANGED <<impl, evars, xvars, fcancelled, ttask, stask, spos, dismissQueued>>

\* fetchSourcePayload returns: showLoading, the supplement Tasks and the
\* children of the task group are started
FetchOk(f) ==
    /\ impl = "swift"
    /\ fpc[f] = "fetching"
    /\ panel' = StartTask(f)
    /\ windowVisible' = TRUE
    /\ stask' = [stask EXCEPT ![f] = [s \in Services |->
                      IF s \in ExplainServices THEN "running" ELSE "none"]]
    /\ ttask' = [ttask EXCEPT ![f] = [s \in Services |-> "running"]]
    /\ fpc' = [fpc EXCEPT ![f] = "group"]
    /\ UNCHANGED <<impl, evars, xvars, isTranslating, activeTask, fcancelled, spos,
                   dismissQueued>>

\* a child of the task group returns its ServiceTranslationOutcome; a timeout
\* of runWithTimeout cancels the child's own operation only
ChildFinish(f, s) ==
    /\ impl = "swift"
    /\ fpc[f] \in {"group", "draining"}
    /\ ttask[f][s] = "running"
    /\ \E outcome \in Outcomes : ttask' = [ttask EXCEPT ![f][s] = outcome]
    /\ UNCHANGED <<impl, evars, xvars, isTranslating, activeTask, fpc, fcancelled, stask,
                   spos, panel, windowVisible, dismissQueued>>

\* one iteration of `for await outcome in group`
GroupNext(f, s) ==
    /\ impl = "swift"
    /\ fpc[f] = "group"
    /\ ttask[f][s] \in Outcomes
    /\ IF IsCancelled(f)
       THEN /\ fpc' = [fpc EXCEPT ![f] = "draining"]
            /\ ttask' = [ttask EXCEPT ![f][s] = "consumed"]
            /\ UNCHANGED panel
       ELSE /\ panel' = ApplyOutcome(panel, s, ttask[f][s])
            /\ ttask' = [ttask EXCEPT ![f][s] = "consumed"]
            /\ UNCHANGED fpc
    /\ UNCHANGED <<impl, evars, xvars, isTranslating, activeTask, fcancelled, stask, spos,
                   windowVisible, dismissQueued>>

\* withTaskGroup returns once every child has finished; the supplement loop
\* runs up to its first suspension
GroupExit(f) ==
    /\ impl = "swift"
    /\ \/ fpc[f] = "group" /\ \A s \in Services : ttask[f][s] = "consumed"
       \/ fpc[f] = "draining" /\ \A s \in Services : ttask[f][s] # "running"
    /\ ttask' = [ttask EXCEPT ![f] = [s \in Services |-> "consumed"]]
    /\ LET r == SupplementLoop(stask[f], 1, IsCancelled(f))
       IN /\ stask' = [stask EXCEPT ![f] = r[1]]
          /\ spos' = [spos EXCEPT ![f] = r[2]]
          /\ fpc' = [fpc EXCEPT ![f] = r[3]]
    /\ UNCHANGED <<impl, evars, xvars, isTranslating, activeTask, fcancelled,
                   panel, windowVisible, dismissQueued>>

\* a supplement Task returns its ServiceSupplementOutcome
SupplementFinish(f, s) ==
    /\ impl = "swift"
    /\ stask[f][s] \in {"running", "cancelled"}
    /\ stask' = [stask EXCEPT ![f][s] = IF @ = "running" THEN "finished" ELSE "aborted"]
    /\ UNCHANGED <<impl, evars, xvars, isTranslating, activeTask, fpc, fcancelled, ttask,
                   spos, panel, windowVisible, dismissQueued>>

\* `await task.value` resumes and the loop goes on
SupplementResume(f) ==
    /\ impl = "swift"
    /\ fpc[f] = "supp"
    /\ stask[f][ServiceOrder[spos[f]]] \in {"finished", "aborted"}
    /\ LET r == SupplementLoop(stask[f], spos[f] + 1, IsCancelled(f))
       IN /\ stask' = [stask EXCEPT ![f] = r[1]]
          /\ spos' = [spos EXCEPT ![f] = r[2]]
          /\ fpc' = [fpc EXCEPT ![f] = r[3]]
    /\ UNCHANGED <<impl, evars, xvars, isTranslating, activeTask, fcancelled, ttask,
                   panel, windowVisible, dismissQueued>>

\* the streaming consumer has ended: finishCurrentTask, then the defer block
FlowFinish(f) ==
    /\ impl = "swift"
    /\ fpc[f] = "closing"
    /\ panel' = FinishTask(panel)
    /\ FlowExit(f)
    /\ UNCHANGED <<impl, evars, xvars, fcancelled, ttask, stask, spos, windowVisible, dismissQueued>>

\* hideBubbleWindow: the window is ordered out and onBubbleDismiss queues
\* cancelTranslationAfterBubbleDismiss on the main actor
HideBubbleWindow ==
    /\ impl = "swift"
    /\ windowVisible
    /\ windowVisible' = FALSE
    /\ dismissQueued' = dismissQueued + 1
    /\ UNCHANGED <<impl, evars, xvars, isTranslating, activeTask, fpc, fcancelled, ttask,
                   stask, spos, panel>>

\* cancelTranslationAfterBubbleDismiss
CancelTranslationAfterBubbleDismiss ==
    /\ impl = "swift"
    /\ dismissQueued > 0
    /\ dismissQueued' = dismissQueued - 1
    /\ IF isTranslating
       THEN /\ fcancelled' = IF activeTask = 0 THEN fcancelled
                             ELSE [fcancelled EXCEPT ![activeTask] = "dismiss"]
            /\ activeTask' = 0
            /\ isTranslating' = FALSE
       ELSE UNCHANGED <<fcancelled, activeTask, isTranslating>>
    /\ UNCHANGED <<impl, evars, xvars, fpc, ttask, stask, spos, panel, windowVisible>>

NextSwift ==
    \/ TriggerTranslate
    \/ TriggerIgnored
    \/ TriggerStale
    \/ \E f \in Flows : FetchFailed(f)
    \/ \E f \in Flows : FetchOk(f)
    \/ \E f \in Flows, s \in Services : ChildFinish(f, s)
    \/ \E f \in Flows, s \in Services : GroupNext(f, s)
    \/ \E f \in Flows : GroupExit(f)
    \/ \E f \in Flows, s \in Services : SupplementFinish(f, s)
    \/ \E f \in Flows : SupplementResume(f)
    \/ \E f \in Flows : FlowFinish(f)
    \/ HideBubbleWindow
    \/ CancelTranslationAfterBubbleDismiss

InitSwift == impl = "swift" /\ ElectronIdle /\ SwiftIdle /\ ComponentsIdle

SpecSwift == InitSwift /\ [][NextSwift]_vars

Init == InitElectron \/ InitSwift

Next == NextElectron \/ NextSwift

Spec == Init /\ [][Next]_vars

-----------------------------------------------------------------------------
(* translator.js and TranslatorClient: cache keys                           *)

\* Array.prototype.join / joined(separator:) over texts
RECURSIVE Join(_, _)
Join(parts, separator) ==
    IF parts = <<>> THEN <<>>
    ELSE IF Len(parts) = 1 THEN parts[1]
    ELSE parts[1] \o separator \o Join(Tail(parts), separator)

GlossaryPair(item) == item.source \o <<"=", ">">> \o item.target

BuildGlossarySignature(glossary) ==
    Join([i \in 1..Len(glossary) |-> GlossaryPair(glossary[i])], <<"|">>)

\* "^" stands for the separator U+0001
BuildCacheKey(config, glossary, text) ==
    Join(<<config.baseUrl, config.model, config.targetLanguage,
           BuildGlossarySignature(glossary), text>>, <<"^">>)

SwiftBuildCacheKey(service, glossary, text) ==
    Join(<<service.baseUrl, service.model, service.targetLanguage,
           IF service.enableThinking THEN <<"T">> ELSE <<"F">>,
           service.temperature, service.normalizedExtraBodyJSON,
           BuildGlossarySignature(glossary), text>>, <<"^">>)

\* the configured services and glossaries a run is started with
ServiceConfig(id, model, apiKey) ==
    [id |-> id, baseUrl |-> <<"u">>, apiKey |-> apiKey, model |-> model,
     targetLanguage |-> <<"z">>,
     enableThinking |-> FALSE, temperature |-> <<"0">>,
     normalizedExtraBodyJSON |-> <<>>]
GlossaryItem(source, target) == [source |-> source, target |-> target]
Glossary == <<GlossaryItem(<<"a">>, <<"b">>)>>

Request(config, glossary, text) ==
    [config |-> config, glossary |-> glossary, text |-> text]
Requests ==
    { Request(ServiceConfig("s1", <<"m">>, <<"k">>), <<>>, <<"x">>),
      Request(ServiceConfig("s2", <<"m">>, <<"k">>), <<>>, <<"x">>),
      Request(ServiceConfig("s3", <<"n">>, <<"k">>), <<>>, <<"x">>),
      Request(ServiceConfig("s4", <<"o">>, <<>>), <<>>, <<"x">>),
      Request(ServiceConfig("s1", <<"m">>, <<"k">>), Glossary, <<"y">>) }

\* getRuntimeConfig(): the fields of the active service, here s1
RuntimeConfig == ServiceConfig("s1", <<"m">>, <<"k">>)

\* a || b on strings, then String.prototype.trim
OrElse(a, b) == Trim(IF a # <<>> THEN a ELSE b)

ResolveRequestConfig(serviceConfig) ==
    [serviceConfig EXCEPT
        !.baseUrl = OrElse(@, RuntimeConfig.baseUrl),
        !.apiKey = OrElse(@, RuntimeConfig.apiKey),
        !.model = OrElse(@, RuntimeConfig.model),
        !.targetLanguage = OrElse(@, RuntimeConfig.targetLanguage)]

\* ensureConfig does not throw / the guard of translateStreamingOnce passes
ConfigComplete(config) ==
    config.baseUrl # <<>> /\ config.apiKey # <<>> /\ config.model # <<>>

\* the configuration a run sends its request with
EffectiveConfig(r) ==
    IF cacheImpl = "js" THEN ResolveRequestConfig(r.config) ELSE r.config

CacheKey(r) ==
    IF cacheImpl = "js"
    THEN BuildCacheKey(ResolveRequestConfig(r.config), r.glossary, r.text)
    ELSE SwiftBuildCacheKey(r.config, r.glossary, r.text)

-----------------------------------------------------------------------------
(* translator.js: translationCache, a Map in insertion order.               *)
(* TranslatorClient: cache, a dictionary, with cacheOrder, an array.        *)
(* Both are held as [store: set of key/value entries, order: keys].         *)

Entry(key, value) == [key |-> key, value |-> value]
Without(keys, key) == SelectSeq(keys, LAMBDA k : k # key)

MapHas(m, key) == \E e \in m.store : e.key = key
MapGet(m, key) == (CHOOSE e \in m.store : e.key = key).value
MapDelete(m, key) ==
    [store |-> {e \in m.store : e.key # key}, order |-> Without(m.order, key)]
\* Map.prototype.set: an existing key keeps its position
MapSet(m, key, value) ==
    IF MapHas(m, key)
    THEN [m EXCEPT !.store = {e \in m.store : e.key # key} \cup {Entry(key, value)}]
    ELSE [store |-> m.store \cup {Entry(key, value)}, order |-> Append(m.order, key)]
MapSize(m) == Cardinality(m.store)

Miss(m) == [found |-> FALSE, text |-> <<>>, cache |-> m]
Hit(text, m) == [found |-> TRUE, text |-> text, cache |-> m]

TranslationCacheRead(m, cacheKey) ==
    IF ~MapHas(m, cacheKey) THEN Miss(m)
    ELSE LET value == MapGet(m, cacheKey)
         IN Hit(value, MapSet(MapDelete(m, cacheKey), cacheKey, value))

\* a put that never evicts
TranslationCacheWriteUnbounded(m, cacheKey, translatedText) ==
    IF Trim(translatedText) = <<>> THEN m ELSE MapSet(m, cacheKey, Trim(translatedText))

TranslationCacheWrite(m, cacheKey, translatedText) ==
    LET text == Trim(translatedText)
        set == MapSet(m, cacheKey, text)
    IN IF text = <<>> THEN m
       ELSE IF MapSize(set) <= CacheLimit THEN set
       ELSE MapDelete(set, set.order[1])

ReadCache(m, key) ==
    IF ~MapHas(m, key) THEN Miss(m)
    ELSE Hit(MapGet(m, key), [m EXCEPT !.order = Append(Without(m.order, key), key)])

RECURSIVE Expire(_)
Expire(m) ==
    IF Len(m.order) > CacheLimit
    THEN Expire([store |-> {e \in m.store : e.key # m.order[1]},
                 order |-> Tail(m.order)])
    ELSE m

WriteCache(m, key, value) ==
    LET text == Trim(value)
    IN IF text = <<>> THEN m
       ELSE Expire([store |-> {e \in m.store : e.key # key} \cup {Entry(key, text)},
                    order |-> Append(Without(m.order, key), key)])

\* a put that stores nothing
CacheWriteDropped(m, key, text) == m

CacheRead(m, key) ==
    IF cacheImpl = "js" THEN TranslationCacheRead(m, key) ELSE ReadCache(m, key)
CacheWrite(m, key, text) ==
    IF cacheImpl = "js" THEN TranslationCacheWrite(m, key, text)
    ELSE WriteCache(m, key, text)

-----------------------------------------------------------------------------
(* One Backend Client run per client: runServiceTranslation's calls of      *)
(* streamTranslateText and translateText (js), or runWithTimeout around     *)
(* translateStreamingOnce (swift)                                           *)

\* the text deltas a streaming response may carry before it ends or breaks
Streams == { <<>>, << <<"_">> >>, << <<"a", "_">>, <<"b">> >> }
\* the text of a non-streaming reply
Replies == { <<"f", "_">> }

\* fullText += delta
Concat(deltas) == Join(deltas, <<>>)

\* emitIfNeeded after each event: translated = trimmed(translated + delta)
RECURSIVE SwiftAccumulate(_, _)
SwiftAccumulate(translated, deltas) ==
    IF deltas = <<>> THEN translated
    ELSE SwiftAccumulate(Trim(translated \o Head(deltas)), Tail(deltas))

\* history kept for the properties
Touch(keys, key) == Append(Without(keys, key), key)
Cached(keys, m) == SelectSeq(keys, LAMBDA k : MapHas(m, k))
Produced(m, key, r) ==
    {e \in producer : MapHas(m, e.key) /\ e.key # key}
        \cup (IF MapHas(m, key) THEN {[key |-> key, request |-> r]} ELSE {})

\* a run that has returned leaves its outcome and its count of network calls
Finish(cl, outcome) == [IdleClient EXCEPT !.outcome = outcome, !.net = cl.net]

\* the run ends with a text: from the cache, or from the network and written
\* through to the cache
Succeed(c, cl, how, text, m) ==
    /\ client' = [client EXCEPT ![c] = Finish(cl, how)]
    /\ tcache' = m
    /\ prevRun' = [request |-> cl.request, result |-> text]

Fail(c, cl) ==
    /\ client' = [client EXCEPT ![c] = Finish(cl, "error")]
    /\ prevRun' = NoRun
    /\ UNCHANGED <<tcache, recency, producer, evicted>>

\* a cache lookup under the run's key, then the request if it misses
Attempt(c, cl, pc) ==
    LET key == CacheKey(cl.request)
        read == CacheRead(tcache, key)
    IN IF read.found
       THEN /\ Succeed(c, cl, "hit", read.text, read.cache)
            /\ recency' = Touch(recency, key)
            /\ UNCHANGED <<producer, evicted>>
       ELSE /\ client' = [client EXCEPT ![c] =
                             [cl EXCEPT !.pc = pc, !.key = key, !.net = @ + 1,
                                        !.waited = 0]]
            /\ prevRun' = NoRun
            /\ UNCHANGED <<tcache, recency, producer, evicted>>

WriteThrough(c, text) ==
    LET key == client[c].key
        m == CacheWrite(tcache, key, text)
    IN /\ Succeed(c, client[c], "fetched", Trim(text), m)
       /\ recency' = Cached(Touch(recency, key), m)
       /\ producer' = Produced(m, key, client[c].request)
       /\ evicted' = IF \E e \in tcache.store : ~MapHas(m, e.key)
                     THEN (CHOOSE e \in tcache.store : ~MapHas(m, e.key)).key
                     ELSE evicted

Fetching(c) == client[c].pc \in {"streaming", "fallback"}

\* a run starts: configuration check, cache lookup, request
ClientStart(c, r) ==
    /\ impl = "client"
    /\ client[c].pc = "idle"
    /\ runs < MaxRuns
    /\ runs' = runs + 1
    /\ LET cl == [IdleClient EXCEPT !.request = r]
       IN IF ConfigComplete(EffectiveConfig(r))
          THEN Attempt(c, cl, "streaming")
          ELSE Fail(c, cl)
    /\ UNCHANGED <<impl, evars, svars, rvars, pvars, yvars, cacheImpl>>

\* the stream has failed or ended without text: translateText is tried when no
\* delta was seen (js); the error is returned otherwise
StreamBroken(c, deltas) ==
    IF cacheImpl = "js" /\ deltas = <<>>
    THEN Attempt(c, client[c], "fallback")
    ELSE Fail(c, client[c])

\* the streaming response ends after these deltas
ClientStreamEnd(c, deltas) ==
    /\ impl = "client"
    /\ client[c].pc = "streaming"
    /\ LET text == IF cacheImpl = "js" THEN Concat(deltas)
                   ELSE SwiftAccumulate(<<>>, deltas)
       IN IF Trim(text) # <<>> THEN WriteThrough(c, text)
          ELSE StreamBroken(c, deltas)
    /\ UNCHANGED <<impl, evars, svars, rvars, pvars, yvars, cacheImpl, runs>>

\* the streaming request fails or is aborted by its timer after these deltas
ClientStreamFail(c, deltas) ==
    /\ impl = "client"
    /\ client[c].pc = "streaming"
    /\ StreamBroken(c, deltas)
    /\ UNCHANGED <<impl, evars, svars, rvars, pvars, yvars, cacheImpl, runs>>

ClientFallbackOk(c, text) ==
    /\ impl = "client"
    /\ client[c].pc = "fallback"
    /\ WriteThrough(c, Trim(text))
    /\ UNCHANGED <<impl, evars, svars, rvars, pvars, yvars, cacheImpl, runs>>

ClientFallbackFail(c) ==
    /\ impl = "client"
    /\ client[c].pc = "fallback"
    /\ Fail(c, client[c])
    /\ UNCHANGED <<impl, evars, svars, rvars, pvars, yvars, cacheImpl, runs>>

\* time passes for every request in flight; a timer that is due fires first
Tick ==
    /\ impl = "client"
    /\ \E c \in Clients : Fetching(c)
    /\ \A c \in Clients : Fetching(c) => client[c].waited < TimeoutTicks
    /\ client' = [c \in Clients |->
                     IF Fetching(c)
                     THEN [client[c] EXCEPT !.waited = @ + 1, !.age = @ + 1]
                     ELSE client[c]]
    /\ UNCHANGED <<impl, evars, svars, rvars, pvars, yvars, cacheImpl, tcache, runs, recency,
                   producer, evicted, prevRun>>

NextClient ==
    \/ \E c \in Clients, r \in Requests : ClientStart(c, r)
    \/ \E c \in Clients, deltas \in Streams : ClientStreamEnd(c, deltas)
    \/ \E c \in Clients, deltas \in Streams : ClientStreamFail(c, deltas)
    \/ \E c \in Clients, text \in Replies : ClientFallbackOk(c, text)
    \/ \E c \in Clients : ClientFallbackFail(c)
    \/ Tick

InitClient ==
    /\ impl = "client"
    /\ cacheImpl \in {"js", "swift"}
    /\ ElectronIdle /\ SwiftIdle /\ CacheIdle /\ RoutingIdle /\ CardsIdle /\ LeafIdle

SpecClient == InitClient /\ [][NextClient]_vars

-----------------------------------------------------------------------------
(* Properties                                                              *)

Terminal(status) == status \in {"done", "error"}
Finished(item) == item \in {"done", "failed"}

\* the step in which flow f calls finishCurrentTask on the task it started
FinishesOwnTask(f) == fpc[f] = "closing" /\ fpc'[f] = "ended" /\ panel.owner = f

\* C1: the request-level terminal event ('all-done' in Electron,
\* finishCurrentTask in Swift) occurs only after every candidate service of the
\* request has reached done or error, cancelled executions included.
C1_TerminalAfterEveryService ==
    [][/\ (flow = "translating" /\ flow' = "idle")
            => \A s \in Services : Terminal(svcState[s].status)
       /\ \A f \in Flows :
            FinishesOwnTask(f) => \A s \in Services : Finished(panel.services[s])
      ]_vars

\* the status of a service becomes error in this step (Electron)
Fails(b) == svcState[b].status # "error" /\ svcState'[b].status = "error"
              /\ flow = "translating"
\* a child of flow f ends in an error or a timeout in this step (Swift)
ChildFails(f, b) == ttask[f][b] = "running" /\ ttask'[f][b] \in {"error", "timeout"}
\* the failure of b is applied to the panel in this step (Swift)
FailureShown(b) == panel.services[b] = "running" /\ panel'.services[b] = "failed"

\* the text a service that is done must show, from its own task's data only
OwnResult(a) ==
    IF task[a].fallbackIssued THEN cache[a] ELSE Trim(task[a].latestTranslation)

\* C2: the failure or timeout of service B neither cancels the task of a
\* sibling A nor changes A's status or text, it is recorded in B's state only,
\* and a service that is done shows its own result.
C2_FailureStaysWithItsService ==
    /\ [][\A a, b \in Services : a # b =>
            /\ Fails(b) => /\ svcState'[a] = svcState[a]
                           /\ task'[a] = task[a]
                           /\ metric'[a] = metric[a]
            /\ \A f \in Flows :
                 ChildFails(f, b) => /\ ttask'[f][a] = ttask[f][a]
                                     /\ fcancelled' = fcancelled
                                     /\ panel' = panel
            /\ FailureShown(b) => panel'.services[a] = panel.services[a]
         ]_vars
    /\ [](\A a \in Services :
            (flow = "translating" /\ svcState[a].status = "done")
               => svcState[a].translation = OwnResult(a))

C2_Witness ==
    /\ flow = "translating"
    /\ svcState["s2"].status = "error"
    /\ task["s2"].streamedOnce
    /\ svcState["s1"].status = "done"
    /\ svcState["s1"].translation = <<"a", "b">>

\* the request-level outcome of the Electron 'all-done' event
AllDoneConsistent(ev) ==
    ev.stage = "all-done" =>
        /\ ev.error # "" <=> \A s \in Services : ev.services[s].status = "error"
        /\ (\E s \in Services : ev.services[s].status = "done") => ev.error = ""

AllFinished(p) == \A s \in Services : Finished(p.services[s])
AllFailed(p) == \A s \in Services : p.services[s] = "failed"
SomeDone(p) == \E s \in Services : p.services[s] = "done"
SomeFailed(p) == \E s \in Services : p.services[s] = "failed"

C4_FallbackIffNoDelta ==
    flow = "translating" =>
        \A s \in Services :
            /\ task[s].fallbackIssued <=> (task[s].streamFailed /\ ~task[s].streamedOnce)
            /\ (task[s].streamFailed /\ task[s].streamedOnce)
                   => /\ svcState[s].status = "error"
                      /\ task[s].pc = "returned"

C4_Witness ==
    /\ flow = "translating"
    /\ task["s1"].streamFailed /\ task["s1"].streamedOnce /\ ~task["s1"].fallbackIssued
    /\ svcState["s1"].status = "error"
    /\ task["s2"].streamFailed /\ ~task["s2"].streamedOnce /\ task["s2"].fallbackIssued

\* C5: at most one translation flow is in flight at any time: a trigger that
\* arrives while an earlier flow is still executing never makes two flows run
\* concurrently.
C5_AtMostOneFlowInFlight ==
    /\ Cardinality({f \in Flows : InFlight(f)}) <= 1
    /\ flow # "idle" => translationInProgress

\* C6: once the dismiss handler has cancelled a request, no per-backend task and
\* no supplement task of that request keeps running uncancelled to completion.
C6_DismissCancelsEveryTask ==
    [][\A f \in Flows, s \in Services :
          fcancelled[f] = "dismiss" =>
              ~(stask[f][s] = "running" /\ stask'[f][s] = "finished")
      ]_vars

\* C7: after the renderer has applied, in emission order, every event of the
\* request up to and including the one emitted in this step, its status and
\* translation for the changed service equal the orchestrator's
\* ServiceRunState for that service; no streamed chunk is lost, duplicated or
\* reordered by the throttle's merging.
C7_RendererReconciles ==
    [][\A s \in Services :
          (lastEvent' # lastEvent /\ lastEvent'.changed = s /\ flow' = "translating")
              => /\ applied'[s].status = svcState'[s].status
                 /\ applied'[s].translation = svcState'[s].translation
      ]_vars

\* the status and the text an event carries for service s
EventStatus(ev, s) ==
    IF ev.kind = "full" THEN ev.services[s].status
    ELSE IF ev.changed = s THEN ev.delta.status ELSE ""
EventText(ev, s) ==
    IF ev.kind = "full" THEN ev.services[s].translation
    ELSE IF ev.changed = s /\ ev.kind = "replace" THEN ev.delta.translation
    ELSE <<"?">>

Returns(s) == task[s].pc # "returned" /\ task'[s].pc = "returned"

\* C8: on every completion path the step that completes a service emits an
\* event for it that carries its final status and final text, whatever the
\* throttle window, and no later event of the request shows it otherwise.
C8_FinalStateFlushed ==
    [][\A s \in Services :
          /\ Returns(s) =>
                /\ lastEvent'.changed = s
                /\ Terminal(svcState'[s].status)
                /\ EventStatus(lastEvent', s) = svcState'[s].status
                /\ EventText(lastEvent', s) = svcState'[s].translation
          /\ (task'[s].pc = "returned" /\ flow' = "translating") =>
                /\ applied'[s].status = svcState'[s].status
                /\ applied'[s].translation = svcState'[s].translation
      ]_vars

C8_Witness ==
    /\ flow = "translating"
    /\ task["s1"].pc = "returned"
    /\ task["s1"].lastEmitSet
    /\ svcState["s1"].status = "error"
    /\ svcState["s1"].translation = <<"a", "b">>
    /\ applied["s1"] = svcState["s1"]
    /\ lastEvent.changed = "s1"

StatusRank(status) ==
    CASE status = "none" -> 0
      [] status = "pending" -> 1
      [] status = "running" -> 2
      [] status = "streaming" -> 3
      [] OTHER -> 4

\* C9: within one request a service's status only moves forward along
\* pending -> running -> streaming -> {done | error}; it never returns to
\* pending, and once done or error neither status nor text changes again.
C9_StatusOnlyForward ==
    [][flow' = "translating" =>
          \A s \in Services :
              /\ StatusRank(svcState[s].status) <= StatusRank(svcState'[s].status)
              /\ svcState'[s].status \in {"running", "streaming", "done", "error"}
              /\ (flow = "translating" /\ Terminal(svcState[s].status))
                     => svcState'[s] = svcState[s]
      ]_vars

C9_Witness ==
    /\ flow = "translating"
    /\ svcState["s1"].status = "done"
    /\ task["s1"].streamedOnce
    /\ svcState["s2"].status = "streaming"
    /\ budget = 0

\* C10: a Backend Client run served from the response cache changes no field
\* of that backend's RoutingMetric.
C10_CacheHitLeavesMetric ==
    [][\A s \in Services :
          (task[s].cacheServed /\ task[s].pc = "hit" /\ task'[s].pc = "returned")
              => metric'[s] = metric[s]
      ]_vars

-----------------------------------------------------------------------------
(* Routing: rankServicesForCurrentRequest and pickServicesForCurrentPopup-  *)
(* Mode (main.js), resolveDisplayServices (AppSettings).  A service is       *)
(* [id, name, enabled]; names are ranks in localized order.                  *)

RECURSIVE Filter(_, _)
Filter(services, keep) ==
    IF services = <<>> THEN <<>>
    ELSE IF Head(services).id \in keep
         THEN <<Head(services)>> \o Filter(Tail(services), keep)
         ELSE Filter(Tail(services), keep)

Ids(services) == {services[i].id : i \in 1..Len(services)}
EnabledIds(services) == {services[i].id : i \in {j \in 1..Len(services) : services[j].enabled}}
\* Array.prototype.find / first(where:)
Find(services, keep) == Filter(services, keep)[1]

\* getActiveService(services, activeServiceId) || services[0]
GetActiveService(services, activeServiceId) ==
    IF activeServiceId \in EnabledIds(services) THEN Find(services, {activeServiceId})
    ELSE IF EnabledIds(services) # {} THEN Find(services, EnabledIds(services))
    ELSE IF activeServiceId \in Ids(services) THEN Find(services, {activeServiceId})
    ELSE services[1]

RouteScore(rt, service) ==
    ScoreServiceForRouting(rt.metric[service.id], service.enabled,
                           service.id = rt.activeServiceId)

\* Array.prototype.sort with (a, b) => score(a) - score(b): stable
RECURSIVE InsertByScore(_, _, _)
InsertByScore(rt, x, sorted) ==
    IF sorted = <<>> THEN <<x>>
    ELSE IF ScoreLess(RouteScore(rt, x), RouteScore(rt, Head(sorted)))
         THEN <<x>> \o sorted
         ELSE <<Head(sorted)>> \o InsertByScore(rt, x, Tail(sorted))

RECURSIVE SortByScore(_, _, _)
SortByScore(rt, services, sorted) ==
    IF services = <<>> THEN sorted
    ELSE SortByScore(rt, Tail(services), InsertByScore(rt, Head(services), sorted))

RankServicesForCurrentRequest(rt) ==
    LET enabledServices == Filter(rt.services, EnabledIds(rt.services))
        pool == IF Len(enabledServices) > 0 THEN enabledServices ELSE rt.services
        active == GetActiveService(pool, rt.activeServiceId)
        rest == Filter(pool, Ids(pool) \ {active.id})
        rankedRest == IF rt.autoRouteEnabled THEN SortByScore(rt, rest, <<>>) ELSE rest
    IN <<active>> \o rankedRest

PickServicesForCurrentPopupMode(rt, services) ==
    LET filtered == Filter(services, rt.bubbleVisibleServiceIds)
    IN IF rt.popupMode # "bubble" THEN services
       ELSE IF rt.bubbleVisibleServiceIds = {} THEN services
       ELSE IF Len(filtered) > 0 THEN filtered
       ELSE <<GetActiveService(services, rt.activeServiceId)>>

\* resolveActiveService: the same rule as getActiveService
ResolveActiveService(rt) == GetActiveService(rt.services, rt.activeServiceId)

\* the comparator of resolveDisplayServices
DisplayedBefore(activeID, lhs, rhs) ==
    IF lhs.id = activeID THEN TRUE
    ELSE IF rhs.id = activeID THEN FALSE
    ELSE lhs.name < rhs.name

RECURSIVE InsertDisplayed(_, _, _)
InsertDisplayed(activeID, x, sorted) ==
    IF sorted = <<>> THEN <<x>>
    ELSE IF DisplayedBefore(activeID, x, Head(sorted)) THEN <<x>> \o sorted
    ELSE <<Head(sorted)>> \o InsertDisplayed(activeID, x, Tail(sorted))

RECURSIVE SortDisplayed(_, _, _)
SortDisplayed(activeID, services, sorted) ==
    IF services = <<>> THEN sorted
    ELSE SortDisplayed(activeID, Tail(services),
                       InsertDisplayed(activeID, Head(services), sorted))

ResolveDisplayServices(rt) ==
    LET enabledServices == Filter(rt.services, EnabledIds(rt.services))
        filtered == Filter(enabledServices, rt.bubbleVisibleServiceIds)
        candidates == IF rt.popupMode = "bubble" /\ rt.bubbleVisibleServiceIds # {}
                         /\ filtered # <<>>
                      THEN filtered ELSE enabledServices
    IN IF enabledServices = <<>> THEN <<ResolveActiveService(rt)>>
       ELSE SortDisplayed(ResolveActiveService(rt).id, candidates, <<>>)

\* the settings and metric histories a request may be ranked with
RouteIds == <<"s1", "s2", "s3">>
RouteIdSet == {RouteIds[i] : i \in 1..Len(RouteIds)}
NameOrders == { <<1, 2, 3>>, <<3, 1, 2>>, <<2, 3, 1>>, <<1, 3, 2>> }
RouteMetrics == { InitialMetric, UpdateServiceMetricOnFailure(InitialMetric, "timeout") }
VisibleChoices == { {}, {"s2"}, {"s2", "s3"} }

RouteServices(enabled, names) ==
    [i \in 1..Len(RouteIds) |->
        [id |-> RouteIds[i], name |-> names[i], enabled |-> enabled[RouteIds[i]]]]

\* the Swift application records no routing metric
MetricHistories(pf) ==
    IF pf = "js" THEN [RouteIdSet -> RouteMetrics] ELSE {[x \in RouteIdSet |-> InitialMetric]}

RoutesOf(pf) ==
    { [platform |-> pf, services |-> RouteServices(en, nm), metric |-> mt,
       activeServiceId |-> act, autoRouteEnabled |-> auto, popupMode |-> mode,
       bubbleVisibleServiceIds |-> vis] :
         en \in [RouteIdSet -> BOOLEAN],
         nm \in NameOrders,
         mt \in MetricHistories(pf),
         act \in RouteIdSet,
         auto \in BOOLEAN,
         mode \in {"panel", "bubble"},
         vis \in VisibleChoices }

Routes == RoutesOf("js") \cup RoutesOf("swift")

\* the services of a request are chosen
RankRequest ==
    /\ impl = "routing"
    /\ attempted = <<>>
    /\ attempted' = IF route.platform = "js"
                     THEN PickServicesForCurrentPopupMode(
                              route, RankServicesForCurrentRequest(route))
                     ELSE ResolveDisplayServices(route)
    /\ UNCHANGED <<impl, evars, svars, cvars, pvars, yvars, route>>

NextRouting == RankRequest

InitRouting ==
    /\ impl = "routing"
    /\ route \in Routes
    /\ attempted = <<>>
    /\ ElectronIdle /\ SwiftIdle /\ cacheImpl = "js" /\ CacheIdle /\ CardsIdle
    /\ LeafIdle

SpecRouting == InitRouting /\ [][NextRouting]_vars

-----------------------------------------------------------------------------
(* Swift: the service cards of TranslationPanelViewModel under the events   *)
(* of one task: streamed text, the typewriter animation, and the outcome of *)
(* each service. Thinking, explanation and detail texts are left out, so a  *)
(* card stays alive for the animation only while it is running. The updates *)
(* of a service travel through streamingUpdates to a consumer task of their *)
(* own, the outcome through the task group to the flow.                     *)

\* events a streaming response may carry, per service
MaxUpdates == 2

\* localizedDescription of the error a child of the task group returns
Message(kind) == IF kind = "timeout" THEN <<"T">> ELSE <<"E">>

Cards(items, targets, tasks) == [items |-> items, targets |-> targets, tasks |-> tasks]
CurrentCards == Cards(renderItems, streamTargets, streamAnimatorTasks)

Target(text) == [set |-> TRUE, text |-> text]

HasPrefix(target, current) ==
    Len(current) <= Len(target) /\ SubSeq(target, 1, Len(current)) = current

NextTypewriterText(current, target) ==
    IF ~HasPrefix(target, current) THEN target
    ELSE LET remaining == Len(target) - Len(current)
             step == IF remaining <= 24 THEN 1
                     ELSE IF remaining <= 80 THEN 2
                     ELSE IF remaining <= 200 THEN 3 ELSE 4
             nextCount == IF Len(current) + step < Len(target)
                          THEN Len(current) + step ELSE Len(target)
         IN IF remaining <= 0 THEN current ELSE SubSeq(target, 1, nextCount)

ShouldKeepStreamAnimationAlive(item) == item.status = "running"

StopStreamAnimation(p, s) ==
    [p EXCEPT !.targets[s] = NoTarget, !.tasks[s] = FALSE]

MaybeStopStreamAnimationIfIdle(p, s) ==
    IF ~p.targets[s].set THEN p
    ELSE IF p.items[s].content = p.targets[s].text
            /\ ~ShouldKeepStreamAnimationAlive(p.items[s])
    THEN StopStreamAnimation(p, s)
    ELSE p

ApplyStreaming(p, s, text) ==
    IF text = <<>> THEN p
    ELSE [p EXCEPT !.targets[s] = Target(text), !.tasks[s] = TRUE]

ApplySuccess(p, s, text) ==
    LET normalized == Trim(text)
    IN MaybeStopStreamAnimationIfIdle(
           [p EXCEPT !.items[s] = [status |-> "done", content |-> normalized],
                     !.targets[s] = Target(normalized)], s)

ApplyError(p, s, message) ==
    LET normalizedMessage == Trim(message)
    IN MaybeStopStreamAnimationIfIdle(
           [p EXCEPT !.items[s] = [status |-> "failed", content |-> normalizedMessage],
                     !.targets[s] = Target(normalizedMessage)], s)

\* one turn of the loop of runStreamAnimation
RunStreamAnimation(p, s) ==
    IF ~p.targets[s].set THEN [p EXCEPT !.tasks[s] = FALSE]
    ELSE IF p.items[s].content = p.targets[s].text
    THEN IF ShouldKeepStreamAnimationAlive(p.items[s]) THEN p
         ELSE StopStreamAnimation(p, s)
    ELSE [p EXCEPT !.items[s].content = NextTypewriterText(@, p.targets[s].text)]

SetCards(p) ==
    /\ renderItems' = p.items
    /\ streamTargets' = p.targets
    /\ streamAnimatorTasks' = p.tasks

\* a stream event with a text delta: emitIfNeeded, whose update onUpdate
\* yields into streamingUpdates
StreamUpdate(s, delta) ==
    /\ impl = "cards"
    /\ streaming[s].pc = "streaming"
    /\ streaming[s].events < MaxUpdates
    /\ LET normalizedText == Trim(streaming[s].translated \o <<delta>>)
       IN streaming' = [streaming EXCEPT
                           ![s].translated = normalizedText,
                           ![s].events = @ + 1,
                           ![s].yielded = IF normalizedText # streaming[s].translated
                                          THEN Append(@, normalizedText) ELSE @]
    /\ UNCHANGED <<impl, evars, svars, cvars, rvars, yvars, renderItems,
                   streamTargets, streamAnimatorTasks>>

\* the streamingConsumer task takes the next update of a service and applies
\* it to the card; it runs beside the flow that applies the outcomes
ConsumeUpdate(s) ==
    /\ impl = "cards"
    /\ streaming[s].yielded # <<>>
    /\ streaming' = [streaming EXCEPT ![s].yielded = Tail(@)]
    /\ SetCards(ApplyStreaming(CurrentCards, s, Head(streaming[s].yielded)))
    /\ UNCHANGED <<impl, evars, svars, cvars, rvars, yvars>>

\* the animation task of a card runs one turn of its loop
AnimationTurn(s) ==
    /\ impl = "cards"
    /\ streamAnimatorTasks[s]
    /\ SetCards(RunStreamAnimation(CurrentCards, s))
    /\ UNCHANGED <<impl, evars, svars, cvars, rvars, yvars, streaming>>

\* the response ends: the child returns the translated text, or the error of
\* an empty result, and the outcome is applied to the card
TranslationReturns(s) ==
    /\ impl = "cards"
    /\ streaming[s].pc = "streaming"
    /\ IF streaming[s].translated # <<>>
       THEN /\ streaming' = [streaming EXCEPT ![s].pc = "returned"]
            /\ SetCards(ApplySuccess(CurrentCards, s, streaming[s].translated))
       ELSE /\ streaming' = [streaming EXCEPT ![s].pc = "failed"]
            /\ SetCards(ApplyError(CurrentCards, s, Message("error")))
    /\ UNCHANGED <<impl, evars, svars, cvars, rvars, yvars>>

\* the request fails or runWithTimeout gives up: the child returns the error
\* and it is applied to the card
TranslationThrows(s, kind) ==
    /\ impl = "cards"
    /\ streaming[s].pc = "streaming"
    /\ streaming' = [streaming EXCEPT ![s].pc = "failed"]
    /\ SetCards(ApplyError(CurrentCards, s, Message(kind)))
    /\ UNCHANGED <<impl, evars, svars, cvars, rvars, yvars>>

NextCards ==
    \/ \E s \in Services :
          \E delta \in DeltaChoices(streaming[s].events + 1) : StreamUpdate(s, delta)
    \/ \E s \in Services : ConsumeUpdate(s)
    \/ \E s \in Services : AnimationTurn(s)
    \/ \E s \in Services : TranslationReturns(s)
    \/ \E s \in Services, kind \in FailureKinds : TranslationThrows(s, kind)

InitCards ==
    /\ impl = "cards"
    /\ ElectronIdle /\ SwiftIdle /\ ComponentsIdle

SpecCards == InitCards /\ [][NextCards]_vars

-----------------------------------------------------------------------------
(* Stream Protocol Parser: the reading loops of translateStreamingOnce      *)
(* (swift, line by line) and streamTranslateText (js, block by block; a     *)
(* block ends at a blank line wherever the chunks of the body are cut).     *)
(* A data line carries one payload; the payloads of several data lines of   *)
(* one event are joined by newlines, which is not a JSON document. Thinking *)
(* is not collected, and no event is an error event.                        *)

\* lines a response body may have
MaxLines == 4

Payload(kind, type, deltaText, finalText, stopReason) ==
    [kind |-> kind, type |-> type, deltaText |-> deltaText,
     finalText |-> finalText, stopReason |-> stopReason]
\* {"type":"content_block_delta","delta":{"type":"text_delta","text":text}}
TextDelta(text) == Payload("json", "content_block_delta", text, <<>>, "")
\* {"type":"message","content":[{"type":"text","text":text}]}
CompleteMessage(text) == Payload("json", "message", <<>>, text, "")
\* {"type":"message_delta","delta":{"stop_reason":reason}}
MessageDelta(reason) == Payload("json", "message_delta", <<>>, <<>>, reason)
\* text that is not a JSON object
Malformed == Payload("malformed", "", <<>>, <<>>, "")
\* [DONE]
Done == Payload("done", "", <<>>, <<>>, "")

Line(field, payload) == [field |-> field, payload |-> payload]
BlankLine == Line("blank", Malformed)
EventLine == Line("event", Malformed)
DataLine(payload) == Line("data", payload)
\* a line that is no SSE field: a whole JSON body, or other text
BodyLine(payload) == Line("other", payload)

DataPayloads ==
    { TextDelta(<<"a", "_">>), TextDelta(<<"b">>), CompleteMessage(<<"c", "_">>),
      MessageDelta("max_tokens"), MessageDelta("end_turn"), Malformed, Done }
StreamLines ==
    {BlankLine, EventLine} \cup {DataLine(payload) : payload \in DataPayloads}
        \cup {BodyLine(CompleteMessage(<<"c", "_">>)), BodyLine(Malformed)}

\* eventLines.joined(separator: "\n") / dataLines.join('\n')
JoinedPayload(payloads) ==
    IF Len(payloads) = 1 THEN payloads[1] ELSE Malformed

ExtractDeltaText(json) == json.deltaText
ExtractFinalText(json) == Trim(json.finalText)
ExtractStopReason(json) == json.stopReason

Outcome(kind, text, cached) == [kind |-> kind, text |-> text, cached |-> cached]

\* ---- swift

EmitIfNeeded(ps, nextText) ==
    LET normalizedText == Trim(nextText)
    IN IF normalizedText = ps.translated THEN ps
       ELSE [ps EXCEPT !.translated = normalizedText,
                       !.updates = Append(@, normalizedText)]

\* Faulty variant of FlushEventLines: a complete text is reported whenever an
\* event carries one.
FlushEventLinesReportingEveryText(ps) ==
    IF ps.eventLines = <<>> THEN ps
    ELSE LET payload == JoinedPayload(ps.eventLines)
             p0 == [ps EXCEPT !.eventLines = <<>>]
         IN IF payload.kind # "json" THEN p0
            ELSE IF ExtractDeltaText(payload) # <<>>
            THEN EmitIfNeeded(p0, p0.translated \o ExtractDeltaText(payload))
            ELSE IF ExtractFinalText(payload) # <<>>
            THEN [p0 EXCEPT !.translated = ExtractFinalText(payload),
                            !.updates = Append(@, ExtractFinalText(payload))]
            ELSE p0

FlushEventLines(ps) ==
    IF ps.eventLines = <<>> THEN ps
    ELSE LET payload == JoinedPayload(ps.eventLines)
             p0 == [ps EXCEPT !.eventLines = <<>>]
             reason == ExtractStopReason(payload)
             p1 == IF reason # "" THEN [p0 EXCEPT !.stopReason = reason] ELSE p0
             delta == ExtractDeltaText(payload)
             full == ExtractFinalText(payload)
         IN IF payload.kind # "json" THEN p0
            ELSE IF delta # <<>> THEN EmitIfNeeded(p1, p1.translated \o delta)
            ELSE IF full # <<>> /\ full # p1.translated THEN EmitIfNeeded(p1, full)
            ELSE p1

\* one turn of `for try await rawLine in bytes.lines`
SwiftReadLine(ps, line) ==
    LET p0 == [ps EXCEPT !.rawText = Append(@, line)]
    IN IF line.field \in {"event", "blank"} THEN FlushEventLines(p0)
       ELSE IF line.field = "data"
       THEN [p0 EXCEPT !.sawSSEDataLine = TRUE,
                       !.eventLines = Append(@, line.payload)]
       ELSE p0

\* collector.rawText, trimmed, as a JSON object: the body is one such line
RawLines(ps) == SelectSeq(ps.rawText, LAMBDA l : l.field # "blank")
RawPayload(ps) ==
    IF Len(RawLines(ps)) = 1 /\ RawLines(ps)[1].field = "other"
    THEN RawLines(ps)[1].payload
    ELSE Malformed

\* Faulty variant of SwiftEndOfBody: a body without text is an empty response,
\* whatever it held.
SwiftEndOfBodyAlwaysEmpty(ps) ==
    LET p1 == FlushEventLines(ps)
    IN IF p1.translated # <<>>
       THEN [state |-> p1, outcome |-> Outcome("ok", p1.translated, p1.translated)]
       ELSE [state |-> p1, outcome |-> Outcome("emptyResponse", <<>>, <<>>)]

\* after the loop: the last event, the whole body as one JSON object, the
\* guard on translated, writeCache
SwiftEndOfBody(ps) ==
    LET p1 == FlushEventLines(ps)
        raw == RawLines(p1)
        fallback == IF RawPayload(p1).kind = "json"
                    THEN ExtractFinalText(RawPayload(p1)) ELSE <<>>
        p2 == IF p1.translated = <<>> /\ raw # <<>> /\ fallback # <<>>
              THEN EmitIfNeeded(p1, fallback) ELSE p1
    IN IF p1.translated = <<>> /\ raw # <<>> /\ fallback = <<>>
          /\ ~p1.sawSSEDataLine
       THEN [state |-> p1, outcome |-> Outcome("invalidResponseFormat", <<>>, <<>>)]
       ELSE IF p2.translated = <<>>
       THEN [state |-> p2,
             outcome |-> Outcome(IF p2.stopReason = "max_tokens"
                                 THEN "stoppedBeforeAnswer" ELSE "emptyResponse",
                                 <<>>, <<>>)]
       ELSE [state |-> p2, outcome |-> Outcome("ok", p2.translated, p2.translated)]

\* ---- js: eventLines holds the lines of buffer, translated holds fullText

ParseSseBlock(block) ==
    LET dataLines == SelectSeq(block, LAMBDA l : l.field = "data")
    IN [dataLines |-> [i \in 1..Len(dataLines) |-> dataLines[i].payload]]

\* Faulty variant of ConsumeBlock: a payload that does not parse discards the
\* text read so far.
ConsumeBlockResetByMalformed(ps, block) ==
    LET dataLines == ParseSseBlock(block).dataLines
        payload == JoinedPayload(dataLines)
    IN IF dataLines = <<>> \/ payload.kind = "done" THEN ps
       ELSE IF payload.kind = "malformed" THEN [ps EXCEPT !.translated = <<>>]
       ELSE IF payload.type = "content_block_delta" /\ payload.deltaText # <<>>
       THEN [ps EXCEPT !.translated = @ \o payload.deltaText,
                       !.updates = Append(@, ps.translated \o payload.deltaText)]
       ELSE ps

ConsumeBlock(ps, block) ==
    LET dataLines == ParseSseBlock(block).dataLines
        payload == JoinedPayload(dataLines)
    IN IF dataLines = <<>> \/ payload.kind # "json" THEN ps
       ELSE IF payload.type = "content_block_delta" /\ payload.deltaText # <<>>
       THEN [ps EXCEPT !.translated = @ \o payload.deltaText,
                       !.updates = Append(@, ps.translated \o payload.deltaText)]
       ELSE ps

\* buffer += chunk, then every block that a delimiter ends is consumed
JsReadLine(ps, line) ==
    IF line.field = "blank"
    THEN IF ps.eventLines = <<>> THEN ps
         ELSE ConsumeBlock([ps EXCEPT !.eventLines = <<>>], ps.eventLines)
    ELSE [ps EXCEPT !.eventLines = Append(@, line)]

\* reader.read() is done: what is left in buffer is not looked at
JsEndOfBody(ps) ==
    IF Trim(ps.translated) = <<>>
    THEN [state |-> ps, outcome |-> Outcome("emptyResponse", <<>>, <<>>)]
    ELSE [state |-> ps,
          outcome |-> Outcome("ok", Trim(ps.translated), Trim(ps.translated))]

\* ---- either

ReadLineOf(which, ps, line) ==
    IF which = "js" THEN JsReadLine(ps, line) ELSE SwiftReadLine(ps, line)
EndOfBodyOf(which, ps) ==
    IF which = "js" THEN JsEndOfBody(ps) ELSE SwiftEndOfBody(ps)

\* the locals after these lines
RECURSIVE ReadLines(_, _, _)
ReadLines(which, ps, lines) ==
    IF lines = <<>> THEN ps
    ELSE ReadLines(which, ReadLineOf(which, ps, Head(lines)), Tail(lines))

\* the run over a whole body
RunStream(which, lines) == EndOfBodyOf(which, ReadLines(which, NewParser, lines))

ReadLine(line) ==
    /\ impl = "stream"
    /\ returned = NoOutcome
    /\ Len(fed) < MaxLines
    /\ fed' = Append(fed, line)
    /\ parser' = ReadLineOf(streamImpl, parser, line)
    /\ UNCHANGED <<impl, evars, svars, cvars, rvars, pvars, nvars, streamImpl, returned>>

EndOfBody ==
    /\ impl = "stream"
    /\ returned = NoOutcome
    /\ parser' = EndOfBodyOf(streamImpl, parser).state
    /\ returned' = EndOfBodyOf(streamImpl, parser).outcome
    /\ UNCHANGED <<impl, evars, svars, cvars, rvars, pvars, nvars, streamImpl, fed>>

NextStream ==
    \/ \E line \in StreamLines : ReadLine(line)
    \/ EndOfBody

InitStream ==
    /\ impl = "stream"
    /\ streamImpl \in {"js", "swift"}
    /\ fed = <<>> /\ parser = NewParser /\ returned = NoOutcome
    /\ ElectronIdle /\ SwiftIdle /\ cacheImpl = "js" /\ CacheIdle /\ RoutingIdle
    /\ CardsIdle /\ SettingsIdle

SpecStream == InitStream /\ [][NextStream]_vars

-----------------------------------------------------------------------------
(* Configuration layer: the ids of the configured services, as              *)
(* normalizeServices (config.js), the settings save path (main.js) and      *)
(* AppSettings.normalized (swift) make them. An id is a text.               *)

\* services a settings file may list
MaxServices == 3

Digits == <<"0", "1", "2", "3", "4", "5", "6", "7", "8", "9">>
\* `${n}` / "\(n)"
RECURSIVE NumberText(_)
NumberText(n) ==
    IF n < 10 THEN <<Digits[n + 1]>>
    ELSE NumberText(n \div 10) \o <<Digits[(n % 10) + 1]>>

\* `svc_${index + 1}`, index counted from 0
FallbackId(index) == <<"s", "v", "c", "_">> \o NumberText(index + 1)
\* DEFAULT_SERVICE_ID / "svc_default"
DefaultServiceId == <<"s", "v", "c", "_", "d">>

\* normalizeService, sanitizeServicePayload, ServiceConfig.normalized: the id
NormalizeServiceId(id, index) ==
    IF Trim(id) # <<>> THEN Trim(id) ELSE FallbackId(index)

\* occurrences of baseId among the services before position i
CountBefore(baseIds, i) ==
    Cardinality({j \in 1..(i - 1) : baseIds[j] = baseIds[i]})

\* `${baseId}_${count + 1}`
Suffixed(baseId, count) == baseId \o <<"_">> \o NumberText(count + 1)

\* dedupeServiceIds (main.js), dedupeServicesById (config.js)
DedupeServiceIds(ids) ==
    LET baseIds == [i \in 1..Len(ids) |->
                       IF ids[i] # <<>> THEN ids[i] ELSE FallbackId(i - 1)]
    IN [i \in 1..Len(ids) |->
           IF CountBefore(baseIds, i) = 0 THEN ids[i]
           ELSE Suffixed(baseIds[i], CountBefore(baseIds, i))]

\* dedupeServiceIDs (swift)
DedupeServiceIDs(ids) ==
    LET baseIds == [i \in 1..Len(ids) |->
                       IF Trim(ids[i]) = <<>> THEN FallbackId(i - 1) ELSE ids[i]]
    IN [i \in 1..Len(ids) |->
           IF CountBefore(baseIds, i) = 0 THEN baseIds[i]
           ELSE Suffixed(baseIds[i], CountBefore(baseIds, i))]

\* normalizeServices / normalized(): the ids of the configured services
NormalizedServiceIds(which, raw) ==
    LET ids == [i \in 1..Len(raw) |-> NormalizeServiceId(raw[i], i - 1)]
        services == IF ids = <<>> THEN <<DefaultServiceId>> ELSE ids
    IN IF which = "js" THEN DedupeServiceIds(services)
       ELSE DedupeServiceIDs(services)

RawIds == { <<>>, <<"a">>, <<"a", "_", "2">>, <<"s", "v", "c", "_", "2">> }
RawIdLists == UNION {[1..n -> RawIds] : n \in 0..MaxServices}

NormalizeSettings ==
    /\ impl = "config"
    /\ serviceIds = <<>>
    /\ serviceIds' = NormalizedServiceIds(normImpl, rawServiceIds)
    /\ UNCHANGED <<impl, evars, svars, cvars, rvars, pvars, tvars, normImpl,
                   rawServiceIds>>

NextConfig == NormalizeSettings

InitConfig ==
    /\ impl = "config"
    /\ normImpl \in {"js", "swift"}
    /\ rawServiceIds \in RawIdLists
    /\ serviceIds = <<>>
    /\ ElectronIdle /\ SwiftIdle /\ cacheImpl = "js" /\ CacheIdle /\ RoutingIdle
    /\ CardsIdle /\ ParserIdle

SpecConfig == InitConfig /\ [][NextConfig]_vars

\* C11: when a Backend Client run has just returned a text, a run started next
\* with the identical backend, text, glossary and target language returns the
\* identical text from the cache and makes no network call.
C11_SecondRunFromCache ==
    [][\A c \in Clients, r \in Requests :
          (ClientStart(c, r) /\ prevRun.request = r)
              => /\ client'[c].pc = "idle"
                 /\ client'[c].outcome = "hit"
                 /\ client'[c].net = 0
                 /\ prevRun' = prevRun
      ]_vars

C11_Witness ==
    /\ runs = 2
    /\ prevRun.request = Request(ServiceConfig("s3", <<"n">>, <<"k">>), <<>>, <<"x">>)
    /\ prevRun.result = <<"a", "_", "b">>
    /\ \E c \in Clients : client[c].outcome = "hit" /\ client[c].net = 0
    /\ \E c \in Clients : client[c].outcome = "fetched" /\ client[c].net = 1

\* C12: requests that differ in service id, model, target language, glossary
\* or source text never share a cache key, so a run is served from the cache
\* only with a text that a run of the identical request produced.
C12_CacheKeysSeparateRequests ==
    [][\A c \in Clients, r \in Requests :
          (ClientStart(c, r) /\ client'[c].outcome = "hit")
              => [key |-> CacheKey(r), request |-> r] \in producer
      ]_vars

\* the cache never holds more entries than its bound, in store and in order
WithinBound(m) == MapSize(m) <= CacheLimit /\ Len(m.order) <= CacheLimit

\* C13: after any sequence of gets and puts by concurrently running Backend
\* Client runs, in any interleaving, the cache holds at most its bound of
\* entries (200 in the program, CacheLimit here).
C13_CacheWithinBound == WithinBound(tcache)

C13_Witness ==
    /\ MapSize(tcache) = CacheLimit
    /\ evicted # <<>>
    /\ \E c \in Clients : Fetching(c)

\* the keys a step removes from the cache
Removed == {e.key : e \in {x \in tcache.store : ~MapHas(tcache', x.key)}}

\* C14: a put that makes the cache exceed its bound evicts exactly the least
\* recently used key, a use being a get hit or a put; every other key stays,
\* and a key read by a get hit before the insertion is not the one evicted.
C14_EvictsLeastRecentlyUsed ==
    [][\A key \in Removed : /\ key = Head(recency)
                              /\ Removed = {key}
      ]_vars

\* position of a service in the configured list
ConfiguredIndex(id) == CHOOSE i \in 1..Len(route.services) : route.services[i].id = id

ActiveFirst(out) ==
    (\E i \in 1..Len(out) : out[i].id = route.activeServiceId)
        => out[1].id = route.activeServiceId

RestOrdered(out) ==
    \A i, j \in 2..Len(out) :
        i < j => IF route.autoRouteEnabled
                 THEN ScoreLeq(RouteScore(route, out[i]), RouteScore(route, out[j]))
                 ELSE ConfiguredIndex(out[i].id) < ConfiguredIndex(out[j].id)

\* C15: with the active backend enabled, the attempted sequence holds enabled
\* backends only, each once (all of them when no visibility filter applies),
\* the active one first, the rest in ascending score order under adaptive
\* routing and in configured order without it.
C15_ActiveFirstThenRanked ==
    (attempted # <<>> /\ route.activeServiceId \in EnabledIds(route.services)) =>
        /\ Ids(attempted) \subseteq EnabledIds(route.services)
        /\ Cardinality(Ids(attempted)) = Len(attempted)
        /\ route.popupMode = "panel" => Ids(attempted) = EnabledIds(route.services)
        /\ ActiveFirst(attempted)
        /\ RestOrdered(attempted)

\* the routing score of a metric history, for an enabled, non-active backend
Score(m) == ScoreServiceForRouting(m, TRUE, FALSE)

\* C16: recording one more failure of any kind never lowers the routing score
\* of the backend.
C16_FailureNeverLowersScore ==
    [][\A s \in Services :
          metric'[s].failures = metric[s].failures + 1
              => ScoreLeq(Score(metric[s]), Score(metric'[s]))
      ]_vars

\* C17: after any sequence of success and failure updates, in any interleaving
\* of the backends of a request, attempts = successes + failures and
\* ewmaLatencyMs >= 0 for every backend.
C17_MetricCountsConsistent ==
    \A s \in Services :
        /\ metric[s].attempts = metric[s].successes + metric[s].failures
        /\ metric[s].ewmaNum >= 0 /\ metric[s].ewmaDen > 0

C17_Witness ==
    /\ metric["s1"].successes = 1 /\ metric["s1"].failures = 1
    /\ metric["s2"].failures = 2 /\ metric["s2"].timeouts = 1
    /\ flow = "translating" /\ task["s1"].pc = "returned" /\ task["s2"].pc = "returned"


\* C18: a Backend Client task that is still in flight is never older than its
\* configured timeout: the timeout is one deadline counted from the start of
\* the task, over the streaming attempt and the non-streaming retry together
C18_TaskWithinTimeout ==
    \A c \in Clients : Fetching(c) => client[c].age <= TimeoutTicks

\* C19: a run for a service whose own baseUrl, apiKey or model is empty ends at
\* once with a failure and has made no network call
C19_IncompleteConfigNeverCalls ==
    [][\A c \in Clients, r \in Requests :
          (ClientStart(c, r) /\ ~ConfigComplete(r.config))
              => /\ client'[c].pc = "idle"
                 /\ client'[c].outcome = "error"
                 /\ client'[c].net = 0]_vars


\* C20: when a backend fails after at least one text delta was streamed, its
\* service ends failed and the text it shows is still the streamed text (what
\* was shown, or the last streamed text): the partial output is neither
\* cleared nor replaced
C20_PartialOutputKept ==
    [][\A s \in Services :
          (/\ streaming[s].pc = "streaming"
           /\ streaming'[s].pc = "failed"
           /\ streaming[s].translated # <<>>)
              => /\ renderItems'[s].status = "failed"
                 /\ renderItems'[s].content \in
                        {renderItems[s].content, streaming[s].translated}]_vars


\* the body read so far holds text, and holds a data line
BodyNotEmpty == \E i \in 1..Len(fed) : fed[i].field # "blank"
SawDataLine == \E i \in 1..Len(fed) : fed[i].field = "data"
EndsSwiftBody == EndOfBody /\ streamImpl = "swift"

DeltaEvents(lines) ==
    /\ lines # <<>>
    /\ Len(lines) % 2 = 0
    /\ \A i \in 1..Len(lines) :
          IF i % 2 = 1
          THEN lines[i].field = "data" /\ lines[i].payload.deltaText # <<>>
          ELSE lines[i] = BlankLine
DeltaTexts(lines) ==
    [i \in 1..(Len(lines) \div 2) |-> lines[2 * i - 1].payload.deltaText]

\* C22: after a body of delta-only events with texts d1..dn, the text returned,
\* and the running text last reported, is the concatenation d1+...+dn with
\* the leading and trailing whitespace of the whole removed
C22_DeltasConcatenate ==
    (returned # NoOutcome /\ DeltaEvents(fed))
        => /\ returned.text = Trim(Concat(DeltaTexts(fed)))
           /\ parser.updates # <<>>
           /\ Trim(parser.updates[Len(parser.updates)]) = Trim(Concat(DeltaTexts(fed)))


\* the body holds at i an event of its own whose one data line is malformed
MalformedEventAt(lines, i) ==
    /\ i < Len(lines)
    /\ lines[i] = DataLine(Malformed)
    /\ lines[i + 1] = BlankLine
    /\ i = 1 \/ lines[i - 1] = BlankLine
\* the body without that event
WithoutEventAt(lines, i) ==
    SubSeq(lines, 1, i - 1) \o SubSeq(lines, i + 2, Len(lines))
\* the running text, the texts reported and the stop reason after a body
Progress(which, lines) ==
    LET ps == ReadLines(which, NewParser, lines)
    IN <<ps.translated, ps.updates, ps.stopReason, ps.eventLines>>
HasOtherDataLine(lines, i) ==
    \E j \in 1..Len(lines) : j # i /\ lines[j].field = "data"

\* C23 as stated: a malformed data payload changes neither the running text
\* nor the outcome of the run, the events after it being processed as if it
\* had not been sent
C23_MalformedChangesNothing ==
    \A i \in 1..Len(fed) :
        MalformedEventAt(fed, i)
            => /\ Progress(streamImpl, fed) = Progress(streamImpl, WithoutEventAt(fed, i))
               /\ RunStream(streamImpl, fed).outcome
                      = RunStream(streamImpl, WithoutEventAt(fed, i)).outcome

\* C23, amended: a malformed data payload changes neither the running text nor
\* the texts reported nor the stop reason, and the events after it are
\* processed as if it had not been sent; the outcome of the run is the same
\* too when the body holds another data line
C23_MalformedSkipped ==
    \A i \in 1..Len(fed) :
        MalformedEventAt(fed, i)
            => /\ Progress(streamImpl, fed) = Progress(streamImpl, WithoutEventAt(fed, i))
               /\ HasOtherDataLine(fed, i)
                     => RunStream(streamImpl, fed).outcome
                            = RunStream(streamImpl, WithoutEventAt(fed, i)).outcome

C23_Witness ==
    /\ fed = <<DataLine(Malformed), BlankLine, DataLine(TextDelta(<<"b">>)), BlankLine>>
    /\ returned = Outcome("ok", <<"b">>, <<"b">>)


Separators == {BlankLine, EventLine}
\* the last line read is the data line of a complete-text event that repeats
\* the event before it
SecondOccurrence ==
    LET n == Len(fed)
    IN /\ n >= 3
       /\ fed[n].field = "data" /\ fed[n].payload.finalText # <<>>
       /\ fed[n - 1] \in Separators
       /\ fed[n - 2] = fed[n]
       /\ n = 3 \/ fed[n - 3] \in Separators
\* the buffered event is handed to flushEventLines
Flushes == (\E line \in Separators : ReadLine(line)) \/ EndOfBody

\* C24: in the Swift parser, a complete-text event that repeats the event
\* before it leaves the running text unchanged and reports no update
C24_RepeatedFullTextIsNoOp ==
    [][(streamImpl = "swift" /\ SecondOccurrence /\ Flushes)
          => /\ parser'.translated = parser.translated
             /\ parser'.updates = parser.updates
             /\ parser.translated = Trim(fed[Len(fed)].payload.finalText)]_vars

C24_Witness ==
    /\ streamImpl = "swift"
    /\ fed = <<DataLine(CompleteMessage(<<"c", "_">>)), BlankLine,
               DataLine(CompleteMessage(<<"c", "_">>)), BlankLine>>
    /\ parser.updates = << <<"c">> >>
    /\ parser.eventLines = <<>>

\* C30: in the Electron stream client every complete data event contributes
\* to the final text, the last one too when the body ends without a blank
\* line after it
C30_LastEventCounts ==
    (streamImpl = "js" /\ returned # NoOutcome /\ DeltaEvents(Append(fed, BlankLine)))
        => returned.text = Trim(Concat(DeltaTexts(Append(fed, BlankLine))))


\* C25: after configuration normalization the ids of the configured services
\* are pairwise distinct, whatever ids the settings held
C25_ServiceIdsDistinct ==
    \A i, j \in 1..Len(serviceIds) : i # j => serviceIds[i] # serviceIds[j]


\* the final outcome of the service has been applied to its card
OutcomeApplied(s) == streaming[s].pc \in {"returned", "failed"}

\* C26: once the final outcome of a service has been applied to the view
\* model, no update streamed earlier for it is applied: the content and the
\* status of its card stay what the outcome made them
C26_FinishedCardKeepsContent ==
    [][\A s \in Services : OutcomeApplied(s) => renderItems'[s] = renderItems[s]]_vars

\* flow f takes this step: its position, its children or its supplement tasks move
StepOf(f) == fpc'[f] # fpc[f] \/ ttask'[f] # ttask[f] \/ stask'[f] # stask[f]
\* the panel shows the task that a flow started after f has begun with startTask
Superseded(f) == panel.owner > f /\ \E s \in Services : panel.services[s] # "none"
\* the defer block of flow f runs in this step
Exits(f) == fpc[f] # "ended" /\ fpc'[f] = "ended"

\* C27: once a newer flow has started its task in the panel, no step of an
\* earlier flow changes the panel state of the newer task (no streaming update,
\* result, error or finishTask), and the exit of an earlier flow leaves the
\* isTranslating / activeTranslationTask flags of the newer flow alone.
C27_EarlierFlowLeavesNewerTask ==
    [][\A f \in Flows :
          /\ (Superseded(f) /\ StepOf(f)) => panel' = panel
          /\ (Superseded(f) /\ Exits(f) /\ activeTask \notin {0, f})
                 => (isTranslating' = isTranslating /\ activeTask' = activeTask)
      ]_vars

\* a payload of emitServicesSnapshot
ServiceStages == {"translating", "service-update", "all-done"}
\* a full snapshot of all services
FullSnapshot(ev) ==
    ev.kind = "full" /\ \A s \in Services : ev.services[s].status # "absent"

\* C28: the first service payload of a request that the renderer receives
\* after its window last finished loading is a full snapshot, never an append
\* or replace delta, and a service payload held back while the window is
\* missing or not ready is a full snapshot of all services.
C28_SnapshotBeforeDelta ==
    /\ firstReceived \in {"none", "full"}
    /\ pendingTranslationPayload.stage \in ServiceStages
           => FullSnapshot(pendingTranslationPayload)

\* a runServiceTranslation of the request has started and not yet returned
TaskRunning(s) == task[s].pc \notin {"idle", "returned"}

\* C29: translationInProgress is true exactly while an invocation of
\* translateFromSelection that passed the busy guard is still executing, which
\* includes every moment one of its per-backend tasks is running; every way out
\* of the invocation resets it, so the busy guard is open whenever no flow runs.
C29_InProgressExactlyWhileRunning ==
    /\ translationInProgress <=> flow \in {"reading", "translating"}
    /\ \A s \in Services : TaskRunning(s) => translationInProgress
    /\ flow = "idle" => ~translationInProgress

\* a second invocation has passed the guard after the first one ended, and its
\* per-backend tasks are running
C29_Witness ==
    /\ reqCount = 2
    /\ translationInProgress
    /\ flow = "translating"
    /\ \E s \in Services : TaskRunning(s)

=============================================================================
